---- MODULE Spec2Model ----
(***************************************************************************)
(* A model of the izerop-cli sync core: the sync engine (PullSync,         *)
(* PushSync), the persistent sync state (LoadState / SaveState), the       *)
(* ignore matcher and the watcher loop, together with the local file       *)
(* system, the remote server and the user as environment.                  *)
(*                                                                         *)
(* Paths.  A file name is the sequence of its dot-separated parts          *)
(* ("a.txt" is <<"a","txt">>, ".git" is <<"","git">>), a path is the       *)
(* sequence of its names ("build/x.o" is <<<<"build">>,<<"x","o">>>>).     *)
(* A remote path starts with the name of its top-level directory.          *)
(* Contents are small numbers; the hash of a content is the content        *)
(* itself (SHA-256 is taken to be injective), its size is Size(c), which   *)
(* is not injective.  Time is counted in seconds.                          *)
(***************************************************************************)
EXTENDS Integers, Sequences, FiniteSets, TLC

VARIABLES
    fs,        \* local files under the sync dir: rel path -> [content, mtime]
    ldirs,     \* local directories under the sync dir (set of rel paths)
    now,       \* wall clock, seconds
    rules,     \* parsed .izeropignore rules (sequence of ignorePattern)
    hashOn,    \* whether the server supplies content_hash
    rpaths,    \* the remote file paths other clients of the server use
    srv,       \* server files, by id: [path, content, utime, hasText, alive]
    sdirs,     \* server directories (set of remote paths; a directory's id is its path)
    sclock,    \* server clock: the updated_at of the last server mutation
    log,       \* the server's change feed (sequence of Change)
    eng,       \* per process: the engine run in progress and the in-memory State
    disk,      \* the state file of the profile on disk
    pulling,   \* Watcher.pulling
    events,    \* fsnotify events queued in Watcher.fsw.Events
    debounce,  \* the settle timer of Watcher.Run: [armed, at] (at: when it fires)
    pushCh,    \* Watcher.pushCh holds a push request (buffer of one)
    stopCh,    \* Watcher.stopCh is closed
    loop,      \* where the goroutine of Watcher.Run is
    fsw,       \* the fsnotify subscription Watcher.fsw ("open", "closed")
    nrem,      \* how many operations other clients of the server performed
    nusr,      \* how many operations the user performed on local files
    nflt,      \* the failures injected so far (network, disk)
    hist,      \* what the last cycles did: API calls, skipped changes (history)
    download,  \* Client.DownloadFile in flight: the requests sent (via), its outcome
    answer     \* the last call of IgnoreRules.IsIgnored: its arguments and result

vars == <<fs, ldirs, now, rules, hashOn, rpaths, srv, sdirs, sclock, log, eng,
          disk, pulling, events, debounce, pushCh, stopCh, loop, fsw, nrem, nusr,
          nflt, hist, download, answer>>

----------------------------------------------------------------------------
(* Bounds of the model *)

MaxContent == 3
MaxTicks == 1
TickSecs == 30
MaxRemoteOps == 2
MaxUserOps == 1
MaxFaults == 1
WatchRemoteOps == 1
MaxRules == 3
PageSize == 1

(* Program constants *)

RecentSecs == 30

SettleTime == 12

MaxRedirects == 10

\* no download in flight; no call of IsIgnored made yet
NoDownload == [via |-> <<>>, status |-> "idle", redirects |-> 0]

NoAnswer == [called |-> FALSE, relPath |-> <<>>, isDir |-> FALSE, ignored |-> FALSE]

----------------------------------------------------------------------------
(* Names and paths *)

RootDir == <<"root">>

Base(path) == path[Len(path)]

Dir(path) == SubSeq(path, 1, Len(path) - 1)

HasExt(name) == Len(name) > 1

Ext(name) == IF HasExt(name) THEN name[Len(name)] ELSE ""

WithName(path, name) == [path EXCEPT ![Len(path)] = name]

AddSuffix(path, part) == WithName(path, Append(Base(path), part))

ConflictPath(path) ==
    LET n == Base(path) IN
    IF HasExt(n)
    THEN WithName(path, SubSeq(n, 1, Len(n) - 1) \o <<"conflict", n[Len(n)]>>)
    ELSE WithName(path, Append(n, "conflict"))

TmpPath(path) == AddSuffix(path, "izerop-tmp")

IsHidden(name) == name[1] = ""

HasConflict(name) == \E i \in 2..Len(name) : name[i] = "conflict"

IsTmp(name) == HasExt(name) /\ name[Len(name)] = "izerop-tmp"

Ancestors(path) == { SubSeq(path, 1, k) : k \in 1..(Len(path) - 1) }

Put(f, k, v) == [x \in (DOMAIN f) \cup {k} |-> IF x = k THEN v ELSE f[x]]

Drop(f, k) == [x \in (DOMAIN f) \ {k} |-> f[x]]

remoteToLocal(remotePath) ==
    IF Len(remotePath) >= 2 /\ remotePath[1] = RootDir THEN Tail(remotePath)
    ELSE IF remotePath = <<RootDir>> THEN <<>>
    ELSE remotePath

localToRemote(localRel) == <<RootDir>> \o localRel

----------------------------------------------------------------------------
(* Contents and hashing *)

Contents == 1..MaxContent

NoHash == 0

HashFile(c) == c

Size(c) == (c + 1) \div 2

----------------------------------------------------------------------------
(* The ignore matcher *)

RECURSIVE MatchName(_, _)
MatchName(pat, name) ==
    IF pat = <<>> THEN name = <<>>
    ELSE IF pat[1] = "*"
         THEN \E k \in 1..Len(name) :
                 MatchName(Tail(pat), SubSeq(name, k + 1, Len(name)))
         ELSE name # <<>> /\ name[1] = pat[1] /\ MatchName(Tail(pat), Tail(name))

Match(pattern, path) ==
    /\ Len(pattern) = Len(path)
    /\ \A i \in 1..Len(pattern) : MatchName(pattern[i], path[i])

DStar == <<"**">>

matchDoublestar(pattern, path) ==
    LET stars == { i \in 1..Len(pattern) : pattern[i] = DStar } IN
    IF Cardinality(stars) # 1 THEN FALSE
    ELSE LET s == CHOOSE i \in stars : TRUE
             prefix == SubSeq(pattern, 1, s - 1)
             suffix == SubSeq(pattern, s + 1, Len(pattern))
         IN  IF Len(path) < Len(prefix) \/ SubSeq(path, 1, Len(prefix)) # prefix
             THEN FALSE
             ELSE IF suffix = <<>> THEN TRUE
             ELSE LET remaining == SubSeq(path, Len(prefix) + 1, Len(path)) IN
                  \E i \in 1..Len(remaining) :
                     Match(suffix, SubSeq(remaining, i, Len(remaining)))

matchPattern(pattern, relPath, name) ==
    IF Len(pattern) > 1
    THEN Match(pattern, relPath) \/ matchDoublestar(pattern, relPath)
    ELSE Match(pattern, <<name>>) \/ Match(pattern, relPath)

RECURSIVE IgnoredFrom_FirstMatch(_, _, _, _)
IgnoredFrom_FirstMatch(ps, relPath, isDir, ignored) ==
    IF ps = <<>> THEN ignored
    ELSE LET p == Head(ps) IN
         IF p.dirOnly /\ ~isDir
         THEN IgnoredFrom_FirstMatch(Tail(ps), relPath, isDir, ignored)
         ELSE IF matchPattern(p.pattern, relPath, Base(relPath))
              THEN ~p.negated
              ELSE IgnoredFrom_FirstMatch(Tail(ps), relPath, isDir, ignored)

RECURSIVE IgnoredFrom(_, _, _, _)
IgnoredFrom(ps, relPath, isDir, ignored) ==
    IF ps = <<>> THEN ignored
    ELSE LET p == Head(ps) IN
         IF p.dirOnly /\ ~isDir THEN IgnoredFrom(Tail(ps), relPath, isDir, ignored)
         ELSE IF matchPattern(p.pattern, relPath, Base(relPath))
              THEN IgnoredFrom(Tail(ps), relPath, isDir, ~p.negated)
              ELSE IgnoredFrom(Tail(ps), relPath, isDir, ignored)

IsIgnored(ps, relPath, isDir) ==
    IF Len(ps) = 0 THEN FALSE ELSE IgnoredFrom(ps, relPath, isDir, FALSE)

----------------------------------------------------------------------------
(* The sync state (State, FileRecord) and the result of a cycle (SyncResult) *)

EmptyState == [cursor |-> 0, files |-> <<>>, notes |-> <<>>]

FileRecord(rid, c, rtime, mtime) ==
    [rid |-> rid, size |-> Size(c), hash |-> HashFile(c), rtime |-> rtime, lmod |-> mtime]

NoTime == 0

NoId == 0

ZeroResult ==
    [downloaded |-> 0, uploaded |-> 0, deleted |-> 0, skipped |-> 0,
     conflicts |-> 0, errors |-> 0]

Bump(res, field) == [res EXCEPT ![field] = @ + 1]

----------------------------------------------------------------------------
(* The server as the client sees it (the API of the server) *)

\* isTextFile: the extensions kept as text
IsTextName(name) ==
    ~HasExt(name) \/ Ext(name) \in {"txt", "md", "json", "log", "sh", "go"}

Alive == { i \in 1..Len(srv) : srv[i].alive }

IdAt(path) == { i \in Alive : srv[i].path = path }

ChangeOf(type, action, id, path, c, utime) ==
    [type |-> type, action |-> action, id |-> id, path |-> path,
     size |-> Size(c), hash |-> IF hashOn THEN HashFile(c) ELSE NoHash,
     utime |-> utime]

\* get_changes(cursor): the page of the feed after the cursor
GetChanges(cursor) ==
    LET last == IF cursor + PageSize < Len(log) THEN cursor + PageSize ELSE Len(log) IN
    [changes |-> SubSeq(log, cursor + 1, last),
     cursor  |-> last,
     hasMore |-> last < Len(log)]

\* list_files of the directories a listing reached: remote path -> FileEntry
ListFiles(dirs) ==
    LET ids == { i \in Alive : Dir(srv[i].path) \in dirs } IN
    [ p \in { srv[i].path : i \in ids } |->
        LET i == CHOOSE j \in ids : srv[j].path = p IN
        [id |-> i, size |-> Size(srv[i].content),
         hash |-> IF hashOn THEN HashFile(srv[i].content) ELSE NoHash,
         hasText |-> srv[i].hasText, utime |-> srv[i].utime] ]

----------------------------------------------------------------------------
(* Engine.handleDirectoryChange and Engine.handleFileChange.  w is what the *)
(* engine works on: [fs, ldirs, st, res, wrote, got, skips]; wrote collects *)
(* the paths written (the kernel notifies of them), got the files that were *)
(* downloaded and installed, skips the file changes left unapplied.         *)

World(p) ==
    [fs |-> fs, ldirs |-> ldirs, st |-> eng[p].st, res |-> eng[p].res,
     wrote |-> {}, got |-> {}, skips |-> 0]

HasChildren(w, dir) ==
    \/ \E f \in DOMAIN w.fs : Len(f) > Len(dir) /\ SubSeq(f, 1, Len(dir)) = dir
    \/ \E d \in w.ldirs : Len(d) > Len(dir) /\ SubSeq(d, 1, Len(dir)) = dir

handleDirectoryChange(w, change) ==
    LET localRel == remoteToLocal(change.path) IN
    IF localRel = <<>> THEN w
    ELSE IF IsIgnored(rules, localRel, TRUE) THEN w
    ELSE IF change.action \in {"created", "modified"}
         THEN [w EXCEPT !.ldirs = @ \cup Ancestors(localRel) \cup {localRel}]
         ELSE IF HasChildren(w, localRel) THEN w
              ELSE [w EXCEPT !.ldirs = @ \ {localRel},
                             !.res = Bump(@, "deleted")]

\* the conflict backup of handleFileChange: copyFile(localPath, conflictPath)
BackupConflict(w, localRel, copyOk) ==
    IF copyOk
    THEN [w EXCEPT !.fs = Put(@, ConflictPath(localRel),
                              [content |-> w.fs[localRel].content, mtime |-> now]),
                   !.wrote = @ \cup {ConflictPath(localRel)},
                   !.res = Bump(@, "conflicts")]
    ELSE [w EXCEPT !.res = Bump(Bump(@, "errors"), "conflicts")]

\* the test that decides whether the local file changed since the last sync
LocallyChanged(file, rec) ==
    file.mtime # rec.lmod \/ Size(file.content) # rec.size

\* the recency guard: modified in the last RecentSecs seconds
ActivelyEdited(file) == now - file.mtime < RecentSecs

\* o.fail names the step of the download that fails ("none": all succeed),
\* o.copy whether copyFile succeeds; content is what the server sends.
handleFileChange(w, change, o, content) ==
    LET rel0    == remoteToLocal(change.path)
        isNote  == rel0 # <<>> /\ ~HasExt(Base(rel0))
        localRel == IF isNote THEN AddSuffix(rel0, "txt") ELSE rel0
        exists  == localRel \in DOMAIN w.fs
        tracked == localRel \in DOMAIN w.st.files
    IN
    IF rel0 = <<>> THEN w
    ELSE IF IsIgnored(rules, localRel, FALSE) THEN [w EXCEPT !.res = Bump(@, "skipped")]
    ELSE IF change.action \in {"created", "modified"} THEN
        LET w1 == [w EXCEPT !.ldirs = @ \cup Ancestors(localRel)] IN
        IF exists /\ ActivelyEdited(w.fs[localRel])
        THEN [w1 EXCEPT !.res = Bump(@, "skipped"), !.skips = @ + 1]
        ELSE IF change.hash # NoHash /\ exists
                /\ HashFile(w.fs[localRel].content) = change.hash
        THEN [w1 EXCEPT !.st.files = Put(@, localRel,
                            FileRecord(change.id, w.fs[localRel].content,
                                       change.utime, w.fs[localRel].mtime)),
                        !.res = Bump(@, "skipped")]
        ELSE
        LET w2 == IF exists /\ tracked
                     /\ LocallyChanged(w.fs[localRel], w.st.files[localRel])
                     /\ ~(change.hash # NoHash
                          /\ HashFile(w.fs[localRel].content) = change.hash)
                  THEN BackupConflict(w1, localRel, o.copy)
                  ELSE w1
        IN
        IF o.fail = "create"
        THEN [w2 EXCEPT !.res = Bump(@, "errors"), !.skips = @ + 1]
        ELSE IF o.fail # "none"
        THEN [w2 EXCEPT !.fs = Drop(@, TmpPath(localRel)),
                        !.res = Bump(@, "errors"), !.skips = @ + 1]
        ELSE [w2 EXCEPT
                !.fs = Put(Drop(@, TmpPath(localRel)), localRel,
                           [content |-> content, mtime |-> now]),
                !.wrote = @ \cup {localRel},
                !.got = @ \cup {localRel},
                !.st.notes = IF isNote THEN Put(@, localRel, change.id) ELSE @,
                !.st.files = Put(@, localRel,
                                 FileRecord(change.id, content, change.utime, now)),
                !.res = Bump(@, "downloaded")]
    ELSE \* "deleted"
        IF exists
        THEN [w EXCEPT !.fs = Drop(@, localRel),
                       !.wrote = @ \cup {localRel},
                       !.st.notes = Drop(@, localRel),
                       !.res = Bump(@, "deleted")]
        ELSE w

----------------------------------------------------------------------------
(* Processes.  "watcher" is the goroutine of Watcher.Run with the State of  *)
(* the Watcher; "shell" is a one-shot sync of the surrounding shell         *)
(* (App.RunSync, cmdSync) with the State it loads.                          *)

Procs == {"watcher", "shell"}

EngIdle(st) ==
    [pc |-> "idle", kind |-> "none", st |-> st, res |-> ZeroResult,
     cur |-> 0, page |-> <<>>, pageCursor |-> 0, hasMore |-> FALSE, depth |-> 0,
     first |-> 0, res1 |-> ZeroResult, ret |-> 0, err |-> FALSE,
     rdirs |-> {}, rfiles |-> <<>>, walk |-> <<>>]

Busy(p) == eng[p].pc # "idle"

\* the state file: "none" (absent), "ok" (holds st), "torn" (truncated or
\* partly written, not valid JSON)
DiskOk(st) == [kind |-> "ok", st |-> st]

DiskNone == [kind |-> "none", st |-> EmptyState]

DiskTorn == [kind |-> "torn", st |-> EmptyState]

LoadState == IF disk.kind = "ok" THEN disk.st ELSE EmptyState

\* the kernel's notifications of the paths written, while the watcher subscribes
Notify(paths) ==
    IF fsw = "open"
    THEN events \cup { [path |-> f, inPull |-> pulling] : f \in paths }
    ELSE events

\* hist: calls are the API writes of the cycle in progress (or the last one),
\* pulled the files the last pull installed and nobody touched since, unlinked
\* the tracked files the user removed between cycles, unapplied the changes (by their
\* place in the feed) that pulls left unapplied, snap the local tree and
\* state.files as the last pull left them (quiet: the server has not changed
\* since a pull began; valid: the snapshot is of a pull that ran with the server
\* quiet, and neither server nor user changed anything since; ok: that pull
\* returned no error)
NoSnap == [valid |-> FALSE, ok |-> FALSE, quiet |-> FALSE, fs |-> <<>>, files |-> <<>>]

\* pullErr: the pull of the combined cycle in progress returned a hard error.
\* evs: when the last two surviving events happened.
\* round: a round trip from one machine to a fresh peer (the tree that was
\* pushed, and how far the round trip is)
NoRound == [phase |-> "none", tree |-> <<>>]

EmptyHist ==
    [calls |-> {}, unapplied |-> {}, pulled |-> {}, unlinked |-> {}, snap |-> NoSnap,
     round |-> NoRound, pullErr |-> FALSE, evs |-> <<>>]

----------------------------------------------------------------------------
(* Engine.PullSync, one page request or one change at a time *)

\* PullSync(cursor) is entered: Engine.PullSync of process p
BeginPull(e, kind) ==
    [e EXCEPT !.pc = "pull_fetch", !.kind = kind, !.res = ZeroResult,
              !.cur = e.st.cursor, !.depth = 0, !.err = FALSE]

PullReturn_First(e, pageCursor) ==
    [e EXCEPT !.pc = "pull_done", !.ret = IF e.depth > 0 THEN e.first ELSE pageCursor,
              !.err = FALSE,
              !.res = IF e.depth > 0
                      THEN [e.res EXCEPT !.conflicts = e.res1.conflicts]
                      ELSE e.res,
              !.page = <<>>]

\* what PullSync returns once the last page is done
PullReturn(e, pageCursor) ==
    [e EXCEPT !.pc = "pull_done", !.ret = pageCursor, !.err = FALSE,
              !.res = IF e.depth > 0
                      THEN [e.res EXCEPT !.conflicts = e.res1.conflicts]
                      ELSE e.res,
              !.page = <<>>]

\* the end of a page: recurse with the page's cursor, or return
AfterPage(e) ==
    IF e.hasMore
    THEN [e EXCEPT !.pc = "pull_fetch", !.cur = e.pageCursor,
                   !.res1 = IF e.depth = 0 THEN e.res ELSE e.res1,
                   !.depth = e.depth + 1, !.page = <<>>]
    ELSE PullReturn(e, e.pageCursor)

\* GetChanges failed: the error travels up the recursion
PullFail(e) ==
    [e EXCEPT !.pc = "pull_done", !.err = TRUE,
              !.ret = IF e.depth = 0 THEN e.cur ELSE e.first,
              !.res = IF e.depth = 0 THEN ZeroResult ELSE e.res1,
              !.page = <<>>]

PullFetch(p) ==
    /\ eng[p].pc = "pull_fetch"
    /\ \E ok \in BOOLEAN :
         /\ ~ok => nflt < MaxFaults
         /\ nflt' = IF ok THEN nflt ELSE nflt + 1
         /\ LET e == eng[p]
                r == GetChanges(e.cur)
                e1 == [e EXCEPT !.page = r.changes, !.pageCursor = r.cursor,
                                !.hasMore = r.hasMore, !.pc = "pull_apply",
                                !.first = IF e.depth = 0 THEN r.cursor ELSE e.first]
            IN eng' = [eng EXCEPT ![p] =
                         IF ~ok THEN PullFail(e)
                         ELSE IF r.changes = <<>> THEN AfterPage(e1) ELSE e1]
    /\ UNCHANGED <<download, answer, fs, ldirs, now, rules, hashOn, rpaths, srv, sdirs, sclock, log,
                   disk, pulling, events, debounce, pushCh, stopCh, loop, fsw, nrem, nusr, hist>>

DownloadFails == {"none", "create", "download", "rename"}

PullApply(p) ==
    /\ eng[p].pc = "pull_apply"
    /\ \E fail \in DownloadFails, copyOk \in BOOLEAN :
         /\ (fail # "none" \/ ~copyOk) => nflt < MaxFaults
         /\ nflt' = IF fail # "none" \/ ~copyOk THEN nflt + 1 ELSE nflt
         /\ LET e  == eng[p]
                c  == Head(e.page)
                ix == e.pageCursor - Len(e.page) + 1
                o  == [fail |-> IF c.type = "file" /\ ~srv[c.id].alive
                                THEN "download" ELSE fail,
                       copy |-> copyOk]
                w  == IF c.type = "directory"
                      THEN handleDirectoryChange(World(p), c)
                      ELSE handleFileChange(World(p), c, o, srv[c.id].content)
                e1 == [e EXCEPT !.st = w.st, !.res = w.res, !.page = Tail(e.page)]
            IN /\ fs' = w.fs
               /\ ldirs' = w.ldirs
               /\ events' = Notify(w.wrote)
               /\ eng' = [eng EXCEPT ![p] = IF Tail(e.page) = <<>> THEN AfterPage(e1) ELSE e1]
               /\ hist' = [hist EXCEPT
                             !.unapplied = IF w.skips > 0 THEN @ \cup {ix} ELSE @ \ {ix},
                             !.pulled = @ \cup w.got,
                             !.unlinked = @ \ DOMAIN w.fs]
    /\ UNCHANGED <<download, answer, now, rules, hashOn, rpaths, srv, sdirs, sclock, log,
                   disk, pulling, debounce, pushCh, stopCh, loop, fsw, nrem, nusr>>

----------------------------------------------------------------------------
(* The write calls of the API, as the server answers them.  w carries the   *)
(* server next to the local tree: [.., srv, sdirs, log, sclock, calls].     *)

PushWorld(p) ==
    [fs |-> fs, ldirs |-> ldirs, st |-> eng[p].st, res |-> eng[p].res,
     wrote |-> {}, srv |-> srv, sdirs |-> sdirs, log |-> log, sclock |-> sclock,
     calls |-> {}, rdirs |-> eng[p].rdirs]

Call(op, rel) == [op |-> op, rel |-> rel]

\* PATCH files/:id with contents
UpdateFile(w, id, c) ==
    LET t == w.sclock + 1 IN
    [w EXCEPT !.srv[id].content = c, !.srv[id].utime = t,
              !.log = Append(@, ChangeOf("file", "modified", id, w.srv[id].path, c, t)),
              !.sclock = t]

\* POST files (CreateTextFile, UploadFile): a new file in the directory
CreateFile(w, path, c) ==
    LET t == w.sclock + 1 IN
    [w EXCEPT !.srv = Append(@, [path |-> path, content |-> c, utime |-> t,
                                 hasText |-> IsTextName(Base(path)), alive |-> TRUE]),
              !.log = Append(@, ChangeOf("file", "created", Len(w.srv) + 1, path, c, t)),
              !.sclock = t]

\* DELETE files/:id
DeleteFile(w, id) ==
    LET t == w.sclock + 1 IN
    [w EXCEPT !.srv[id].alive = FALSE, !.srv[id].utime = t,
              !.log = Append(@, ChangeOf("file", "deleted", id, w.srv[id].path,
                                         w.srv[id].content, t)),
              !.sclock = t]

\* POST directories
CreateDirectory(w, path) ==
    LET t == w.sclock + 1 IN
    [w EXCEPT !.sdirs = @ \cup {path},
              !.log = Append(@, ChangeOf("directory", "created", path, path, 1, t)),
              !.sclock = t]

----------------------------------------------------------------------------
(* Engine.PushSync: the walk of the local tree and the deletion pass.  o    *)
(* says which calls succeed: o.write (update, create, upload, mkdir,        *)
(* delete), o.dl (the download of the remote version of a conflict).        *)

\* Walk descends into a directory unless it is hidden or ignored
Walked(rel) ==
    \A d \in Ancestors(rel) : ~IsHidden(Base(d)) /\ ~IsIgnored(rules, d, TRUE)

\* the walk at a directory
pushDir(w, rel, o) ==
    LET remotePath == localToRemote(rel)
        parent == IF Dir(remotePath) \in w.rdirs THEN Dir(remotePath) ELSE <<RootDir>>
        made   == Append(parent, Base(rel))
    IN
    IF IsHidden(Base(rel)) \/ IsIgnored(rules, rel, TRUE) THEN w
    ELSE IF remotePath \in w.rdirs THEN w
    ELSE IF ~o.write
         THEN [w EXCEPT !.res = Bump(@, "errors")]
         ELSE [CreateDirectory(w, made) EXCEPT
                  !.rdirs = @ \cup {remotePath},
                  !.calls = @ \cup {Call("mkdir", rel)}]


\* the remote path of a note: the local name without its .txt
NotePath(remotePath) ==
    LET n == Base(remotePath) IN
    IF HasExt(n) /\ n[Len(n)] = "txt"
    THEN WithName(remotePath, SubSeq(n, 1, Len(n) - 1))
    ELSE remotePath

\* the record push writes after it found the file on the server
Refreshed(remoteFile, file) ==
    FileRecord(remoteFile.id, file.content, remoteFile.utime, file.mtime)

\* the remote version saved next to a conflicting local file
pushConflict(w, rel, remoteFile, o) ==
    IF o.dl /\ w.srv[remoteFile.id].alive
    THEN [w EXCEPT !.fs = Put(@, ConflictPath(rel),
                              [content |-> w.srv[remoteFile.id].content, mtime |-> now]),
                   !.wrote = @ \cup {ConflictPath(rel)},
                   !.res = Bump(@, "conflicts")]
    ELSE [w EXCEPT !.res = Bump(Bump(@, "errors"), "conflicts")]

\* a file the listing did not show, or a binary file that differs: create it
pushCreate(w, rel, o) ==
    LET file == w.fs[rel]
        remotePath == localToRemote(rel)
        op == IF IsTextName(Base(rel)) THEN "create" ELSE "upload"
        w1 == [w EXCEPT !.calls = @ \cup {Call(op, rel)}]
    IN
    IF Dir(remotePath) \notin w.rdirs THEN [w EXCEPT !.res = Bump(@, "errors")]
    ELSE IF ~o.write THEN [w1 EXCEPT !.res = Bump(@, "errors")]
    ELSE [CreateFile(w1, remotePath, file.content) EXCEPT
             !.st.files = Put(@, rel, FileRecord(Len(w.srv) + 1, file.content,
                                                 NoTime, file.mtime)),
             !.res = Bump(@, "uploaded")]

\* the walk at a regular file that the listing shows on the server
pushExisting(w, rel, remoteFile, o) ==
    LET file      == w.fs[rel]
        localHash == HashFile(file.content)
        tracked   == rel \in DOMAIN w.st.files
        rec       == w.st.files[rel]
        w1 == IF tracked /\ rec.rtime # NoTime /\ rec.rtime # remoteFile.utime
              THEN pushConflict(w, rel, remoteFile, o)
              ELSE w
        w2 == [w1 EXCEPT !.calls = @ \cup {Call("update", rel)}]
    IN
    IF remoteFile.hash # NoHash /\ localHash = remoteFile.hash
    THEN [w EXCEPT !.st.files = Put(@, rel, Refreshed(remoteFile, file)),
                   !.res = Bump(@, "skipped")]
    ELSE IF tracked /\ rec.hash # NoHash /\ rec.hash = localHash
            /\ rec.rtime = remoteFile.utime
    THEN [w EXCEPT !.res = Bump(@, "skipped")]
    ELSE IF remoteFile.size = Size(file.content) /\ tracked /\ rec.hash = localHash
    THEN [w EXCEPT !.st.files = Put(@, rel, Refreshed(remoteFile, file)),
                   !.res = Bump(@, "skipped")]
    ELSE IF remoteFile.hasText
    THEN IF ~o.write \/ ~w.srv[remoteFile.id].alive
         THEN [w2 EXCEPT !.res = Bump(@, "errors")]
         ELSE [UpdateFile(w2, remoteFile.id, file.content) EXCEPT
                  !.st.files = Put(@, rel, Refreshed(remoteFile, file)),
                  !.res = Bump(@, "uploaded")]
    ELSE pushCreate(w1, rel, o)

\* the walk at a file tracked as a note
pushNote(w, rel, rfiles, o) ==
    LET file   == w.fs[rel]
        noteID == w.st.notes[rel]
        noteRemotePath == NotePath(localToRemote(rel))
        w1 == [w EXCEPT !.calls = @ \cup {Call("update", rel)}]
    IN
    IF noteRemotePath \in DOMAIN rfiles
       /\ rfiles[noteRemotePath].size = Size(file.content)
    THEN [w EXCEPT !.res = Bump(@, "skipped")]
    ELSE IF ~o.write \/ ~w.srv[noteID].alive
    THEN [w1 EXCEPT !.res = Bump(@, "errors")]
    ELSE [UpdateFile(w1, noteID, file.content) EXCEPT
             !.st.files = Put(@, rel, FileRecord(noteID, file.content,
                                                 NoTime, file.mtime)),
             !.res = Bump(@, "uploaded")]

pushFile_Sidecars(w, rel, rfiles, o) ==
    LET remotePath == localToRemote(rel) IN
    IF IsHidden(Base(rel)) THEN w
    ELSE IF IsIgnored(rules, rel, FALSE) THEN [w EXCEPT !.res = Bump(@, "skipped")]
    ELSE IF rel \in DOMAIN w.st.notes THEN pushNote(w, rel, rfiles, o)
    ELSE IF remotePath \in DOMAIN rfiles
         THEN pushExisting(w, rel, rfiles[remotePath], o)
         ELSE pushCreate(w, rel, o)

\* the walk at a file
pushFile(w, rel, rfiles, o) ==
    LET remotePath == localToRemote(rel) IN
    IF IsHidden(Base(rel)) THEN w
    ELSE IF IsIgnored(rules, rel, FALSE) THEN [w EXCEPT !.res = Bump(@, "skipped")]
    ELSE IF rel \in DOMAIN w.st.notes THEN pushNote(w, rel, rfiles, o)
    ELSE IF HasConflict(Base(rel)) THEN [w EXCEPT !.res = Bump(@, "skipped")]
    ELSE IF remotePath \in DOMAIN rfiles
         THEN pushExisting(w, rel, rfiles[remotePath], o)
         ELSE pushCreate(w, rel, o)

RECURSIVE WalkDirs(_, _, _)
WalkDirs(w, ds, o) ==
    IF ds = {} THEN w
    ELSE LET d == CHOOSE x \in ds : \A y \in ds : Len(x) <= Len(y)
         IN WalkDirs(pushDir(w, d, o), ds \ {d}, o)

RECURSIVE WalkFiles(_, _, _, _)
WalkFiles(w, fset, rfiles, o) ==
    IF fset = {} THEN w
    ELSE LET f == CHOOSE x \in fset : TRUE
         IN WalkFiles(pushFile(w, f, rfiles, o), fset \ {f}, rfiles, o)

\* filepath.Walk over the sync directory
Walk(w, rfiles, o) ==
    LET ds == { d \in w.ldirs : Walked(d) }
        fset == { f \in DOMAIN w.fs : Walked(f) }
    IN WalkFiles(WalkDirs(w, ds, o), fset, rfiles, o)

deleteTracked_StateOnly(w, rel, o) == [w EXCEPT !.st.files = Drop(@, rel)]

\* a tracked file that is gone from the disk: delete it on the server
deleteTracked(w, rel, o) ==
    LET rec == w.st.files[rel]
        w1  == [w EXCEPT !.st.files = Drop(@, rel)]
        w2  == [w1 EXCEPT !.calls = @ \cup {Call("delete", rel)}]
    IN
    IF rec.rid = NoId THEN w1
    ELSE IF o.write /\ w.srv[rec.rid].alive
         THEN [DeleteFile(w2, rec.rid) EXCEPT !.res = Bump(@, "deleted")]
         ELSE [w2 EXCEPT !.res = Bump(@, "errors")]

\* a tracked note that is gone from the disk
deleteNote(w, rel, o) ==
    LET noteID == w.st.notes[rel]
        w1 == [w EXCEPT !.st.notes = Drop(@, rel), !.st.files = Drop(@, rel),
                        !.calls = @ \cup {Call("delete_note", rel)}]
    IN
    IF o.write /\ w.srv[noteID].alive
    THEN [DeleteFile(w1, noteID) EXCEPT !.res = Bump(@, "deleted")]
    ELSE [w1 EXCEPT !.res = Bump(@, "errors")]

RECURSIVE DeleteTracked(_, _, _)
DeleteTracked(w, fset, o) ==
    IF fset = {} THEN w
    ELSE LET f == CHOOSE x \in fset : TRUE
         IN DeleteTracked(deleteTracked(w, f, o), fset \ {f}, o)

RECURSIVE DeleteNotes(_, _, _)
DeleteNotes(w, fset, o) ==
    IF fset = {} THEN w
    ELSE LET f == CHOOSE x \in fset : TRUE
         IN DeleteNotes(deleteNote(w, f, o), fset \ {f}, o)

\* the deletion pass of PushSync: state.files, then state.notes
Deletions(w, o) ==
    LET w1 == DeleteTracked(w, { f \in DOMAIN w.st.files : f \notin DOMAIN w.fs }, o)
    IN DeleteNotes(w1, { f \in DOMAIN w1.st.notes : f \notin DOMAIN w1.fs }, o)

\* PushSync is entered
BeginPush(e, kind) ==
    [e EXCEPT !.pc = "push_init", !.kind = kind, !.res = ZeroResult, !.err = FALSE,
              !.rdirs = {}, !.rfiles = <<>>]

InitFails == {"none", "dirs", "list"}

UnderRoot(dirs) == { d \in dirs : d # <<>> /\ d[1] = RootDir }

\* initRootDir and the listing of the remote files under the root
PushInit(p) ==
    /\ eng[p].pc = "push_init"
    /\ \E fail \in InitFails :
         /\ fail # "none" => nflt < MaxFaults
         /\ nflt' = IF fail # "none" THEN nflt + 1 ELSE nflt
         /\ LET e == eng[p]
                w == IF <<RootDir>> \in sdirs THEN PushWorld(p)
                     ELSE CreateDirectory(PushWorld(p), <<RootDir>>)
            IN IF fail = "dirs"
               THEN /\ eng' = [eng EXCEPT ![p] = [e EXCEPT !.pc = "push_done", !.err = TRUE]]
                    /\ UNCHANGED <<download, answer, sdirs, log, sclock>>
               ELSE /\ \E bad \in SUBSET UnderRoot(w.sdirs) :
                         /\ (fail = "list") = (bad # {})
                         /\ eng' = [eng EXCEPT ![p] =
                                [e EXCEPT !.pc = "push_walk",
                                          !.rdirs = w.sdirs,
                                          !.rfiles = ListFiles(UnderRoot(w.sdirs) \ bad),
                                          !.res.errors = Cardinality(bad)]]
                    /\ sdirs' = w.sdirs
                    /\ log' = w.log
                    /\ sclock' = w.sclock
    /\ UNCHANGED <<download, answer, fs, ldirs, now, rules, hashOn, rpaths, srv, disk, pulling, events,
                   debounce, pushCh, stopCh, loop, fsw, nrem, nusr, hist>>

PushOutcomes == [write : BOOLEAN, dl : BOOLEAN]

\* the walk of the local tree
PushWalk(p) ==
    /\ eng[p].pc = "push_walk"
    /\ \E o \in PushOutcomes :
         /\ (~o.write \/ ~o.dl) => nflt < MaxFaults
         /\ nflt' = IF ~o.write \/ ~o.dl THEN nflt + 1 ELSE nflt
         /\ LET w == Walk(PushWorld(p), eng[p].rfiles, o) IN
            /\ fs' = w.fs
            /\ srv' = w.srv
            /\ sdirs' = w.sdirs
            /\ log' = w.log
            /\ sclock' = w.sclock
            /\ events' = Notify(w.wrote)
            /\ eng' = [eng EXCEPT ![p] = [@ EXCEPT !.pc = "push_del", !.st = w.st,
                                                   !.res = w.res, !.rdirs = w.rdirs]]
            /\ hist' = [hist EXCEPT !.calls = @ \cup w.calls]
    /\ UNCHANGED <<download, answer, ldirs, now, rules, hashOn, rpaths, disk, pulling, debounce, pushCh,
                   stopCh, loop, fsw, nrem, nusr>>

\* the deletion pass, and PushSync returns
PushDeletions(p) ==
    /\ eng[p].pc = "push_del"
    /\ \E ok \in BOOLEAN :
         /\ ~ok => nflt < MaxFaults
         /\ nflt' = IF ok THEN nflt ELSE nflt + 1
         /\ LET w == Deletions(PushWorld(p), [write |-> ok, dl |-> TRUE]) IN
            /\ srv' = w.srv
            /\ log' = w.log
            /\ sclock' = w.sclock
            /\ eng' = [eng EXCEPT ![p] = [@ EXCEPT !.pc = "push_done", !.st = w.st,
                                                   !.res = w.res]]
            /\ hist' = [hist EXCEPT !.calls = @ \cup w.calls]
    /\ UNCHANGED <<download, answer, fs, ldirs, now, rules, hashOn, rpaths, sdirs, disk, pulling, events,
                   debounce, pushCh, stopCh, loop, fsw, nrem, nusr>>

----------------------------------------------------------------------------
(* Persisting the state: SaveState is os.WriteFile, which truncates the     *)
(* file and then writes the bytes.                                          *)

SaveState(st) == DiskOk(st)

----------------------------------------------------------------------------
(* Watcher.runPull *)

\* case <-pollTicker.C: w.runPull()
StoreCursor_OnError(e) == [e.st EXCEPT !.cursor = e.ret]

StoreCursor_Never(e) == e.st

\* the state once the caller of PullSync has looked at its results: the
\* returned cursor is stored only when PullSync returned no error
StoreCursor(e) == IF e.err THEN e.st ELSE [e.st EXCEPT !.cursor = e.ret]

\* a cycle of the watcher begins: what the cycles did before is forgotten
CycleBegins ==
    [hist EXCEPT !.pulled = {}, !.calls = {}, !.snap.quiet = TRUE, !.pullErr = FALSE]

\* a push of the watcher returned
PushEnds == [hist EXCEPT !.pulled = {}, !.unlinked = {}]

\* Run: the directories are watched and the startup cycle (runSync) begins
WStart ==
    /\ loop = "init"
    /\ loop' = "busy"
    /\ fsw' = "open"
    /\ pulling' = TRUE
    /\ eng' = [eng EXCEPT !["watcher"] = BeginPull(@, "sync")]
    /\ hist' = CycleBegins
    /\ UNCHANGED <<download, answer, fs, ldirs, now, rules, hashOn, rpaths, srv, sdirs, sclock, log,
                   disk, events, debounce, pushCh, stopCh, nrem, nusr, nflt>>

WSyncPulled_FlagKept ==
    /\ eng["watcher"].pc = "pull_done"
    /\ eng["watcher"].kind = "sync"
    /\ eng' = [eng EXCEPT !["watcher"] =
                 BeginPush([@ EXCEPT !.st = StoreCursor(eng["watcher"])], "sync")]
    /\ hist' = [hist EXCEPT !.pullErr = eng["watcher"].err]
    /\ UNCHANGED <<download, answer, fs, ldirs, now, rules, hashOn, rpaths, srv, sdirs, sclock, log,
                   disk, events, debounce, pushCh, stopCh, loop, fsw, nrem, nusr, nflt,
                   pulling>>

\* runSync after PullSync returned: the cursor is stored if there was no
\* error, pulling is cleared, PushSync is entered
WSyncPulled ==
    /\ eng["watcher"].pc = "pull_done"
    /\ eng["watcher"].kind = "sync"
    /\ eng' = [eng EXCEPT !["watcher"] =
                 BeginPush([@ EXCEPT !.st = StoreCursor(eng["watcher"])], "sync")]
    /\ pulling' = FALSE
    /\ hist' = [hist EXCEPT !.pullErr = eng["watcher"].err]
    /\ UNCHANGED <<download, answer, fs, ldirs, now, rules, hashOn, rpaths, srv, sdirs, sclock, log,
                   disk, events, debounce, pushCh, stopCh, loop, fsw, nrem, nusr, nflt>>

\* runSync after PushSync returned: the state is saved
WSyncDone ==
    /\ eng["watcher"].pc = "push_done"
    /\ eng["watcher"].kind = "sync"
    /\ eng' = [eng EXCEPT !["watcher"] = EngIdle(@.st)]
    /\ disk' = SaveState(eng["watcher"].st)
    /\ loop' = "select"
    /\ hist' = PushEnds
    /\ UNCHANGED <<download, answer, fs, ldirs, now, rules, hashOn, rpaths, srv, sdirs, sclock, log,
                   pulling, events, debounce, pushCh, stopCh, fsw, nrem, nusr, nflt>>

\* case <-pollTicker.C: runPull begins
WPoll ==
    /\ loop = "select"
    /\ loop' = "busy"
    /\ pulling' = TRUE
    /\ eng' = [eng EXCEPT !["watcher"] = BeginPull(@, "pull")]
    /\ hist' = CycleBegins
    /\ UNCHANGED <<download, answer, fs, ldirs, now, rules, hashOn, rpaths, srv, sdirs, sclock, log,
                   disk, events, debounce, pushCh, stopCh, fsw, nrem, nusr, nflt>>

\* runPull after PullSync returned: on an error return, else store the cursor
\* and save the state
WPullDone ==
    /\ eng["watcher"].pc = "pull_done"
    /\ eng["watcher"].kind = "pull"
    /\ eng' = [eng EXCEPT !["watcher"] = EngIdle(StoreCursor(@))]
    /\ disk' = IF eng["watcher"].err THEN disk ELSE SaveState(StoreCursor(eng["watcher"]))
    /\ pulling' = FALSE
    /\ loop' = "select"
    /\ hist' = [hist EXCEPT !.snap = [valid |-> @.quiet, ok |-> ~eng["watcher"].err,
                                      quiet |-> @.quiet,
                                      fs |-> fs, files |-> eng["watcher"].st.files]]
    /\ UNCHANGED <<download, answer, fs, ldirs, now, rules, hashOn, rpaths, srv, sdirs, sclock, log,
                   events, debounce, pushCh, stopCh, fsw, nrem, nusr, nflt>>

\* Watcher.shouldIgnore: hidden names, conflict copies, temporary files
shouldIgnore(path) ==
    IsHidden(Base(path)) \/ HasConflict(Base(path)) \/ IsTmp(Base(path))

\* the settle timer: not set, or set to fire at a time
NoTimer == [armed |-> FALSE, at |-> 0]

\* time.AfterFunc(d, ...): a timer that fires d seconds from now
AfterFunc(d) == [armed |-> TRUE, at |-> now + d]

\* the time of the timer has come
Due == debounce.armed /\ now >= debounce.at

\* case event := <-w.fsw.Events: dropped while pulling or if shouldIgnore,
\* else the settle timer is set again
WEvent ==
    /\ loop = "select"
    /\ \E ev \in events :
         /\ events' = events \ {ev}
         /\ debounce' = IF pulling \/ shouldIgnore(ev.path) THEN debounce
                        ELSE AfterFunc(SettleTime)
    /\ UNCHANGED <<download, answer, fs, ldirs, now, rules, hashOn, rpaths, srv, sdirs, sclock, log, eng,
                   disk, pulling, pushCh, stopCh, loop, fsw, nrem, nusr, nflt, hist>>

\* the settle timer fires: a push request, unless one is already waiting
TimerFire ==
    /\ debounce.armed
    /\ debounce' = NoTimer
    /\ pushCh' = TRUE
    /\ UNCHANGED <<download, answer, fs, ldirs, now, rules, hashOn, rpaths, srv, sdirs, sclock, log, eng,
                   disk, pulling, events, stopCh, loop, fsw, nrem, nusr, nflt, hist>>

\* case <-w.pushCh: runPush begins
WPush ==
    /\ loop = "select"
    /\ pushCh
    /\ pushCh' = FALSE
    /\ loop' = "busy"
    /\ eng' = [eng EXCEPT !["watcher"] = BeginPush(@, "push")]
    /\ hist' = [hist EXCEPT !.calls = {}]
    /\ UNCHANGED <<download, answer, fs, ldirs, now, rules, hashOn, rpaths, srv, sdirs, sclock, log,
                   disk, pulling, events, debounce, stopCh, fsw, nrem, nusr, nflt>>

\* runPush after PushSync returned: on an error return, else save the state
WPushDone ==
    /\ eng["watcher"].pc = "push_done"
    /\ eng["watcher"].kind = "push"
    /\ eng' = [eng EXCEPT !["watcher"] = EngIdle(@.st)]
    /\ disk' = IF eng["watcher"].err THEN disk ELSE SaveState(eng["watcher"].st)
    /\ loop' = "select"
    /\ hist' = PushEnds
    /\ UNCHANGED <<download, answer, fs, ldirs, now, rules, hashOn, rpaths, srv, sdirs, sclock, log,
                   pulling, events, debounce, pushCh, stopCh, fsw, nrem, nusr, nflt>>

\* Watcher.Stop: the stop channel is closed
Stop ==
    /\ loop # "init"
    /\ ~stopCh
    /\ stopCh' = TRUE
    /\ UNCHANGED <<download, answer, fs, ldirs, now, rules, hashOn, rpaths, srv, sdirs, sclock, log, eng,
                   disk, pulling, events, debounce, pushCh, loop, fsw, nrem, nusr, nflt,
                   hist>>

\* case <-w.stopCh: the state is saved, the subscription closed, Run returns
WStop ==
    /\ loop = "select"
    /\ stopCh
    /\ disk' = SaveState(eng["watcher"].st)
    /\ fsw' = "closed"
    /\ loop' = "stopped"
    /\ UNCHANGED <<download, answer, fs, ldirs, now, rules, hashOn, rpaths, srv, sdirs, sclock, log, eng,
                   pulling, events, debounce, pushCh, stopCh, nrem, nusr, nflt, hist>>

----------------------------------------------------------------------------
(* A one-shot sync of the shell (App.RunSync) on the same sync root *)

\* RunSync loads the state file and enters PullSync
ShellStart ==
    /\ eng["shell"].pc = "idle"
    /\ eng' = [eng EXCEPT !["shell"] = BeginPull(EngIdle(LoadState), "shell")]
    /\ UNCHANGED <<download, answer, fs, ldirs, now, rules, hashOn, rpaths, srv, sdirs, sclock, log,
                   disk, pulling, events, debounce, pushCh, stopCh, loop, fsw, nrem,
                   nusr, nflt, hist>>

\* RunSync after PullSync returned: on an error return, else PushSync
ShellPulled ==
    /\ eng["shell"].pc = "pull_done"
    /\ eng' = [eng EXCEPT !["shell"] =
                 IF @.err THEN EngIdle(@.st)
                 ELSE BeginPush([@ EXCEPT !.st = StoreCursor(eng["shell"])], "shell")]
    /\ UNCHANGED <<download, answer, fs, ldirs, now, rules, hashOn, rpaths, srv, sdirs, sclock, log,
                   disk, pulling, events, debounce, pushCh, stopCh, loop, fsw, nrem,
                   nusr, nflt, hist>>

\* RunSync after PushSync returned: on an error return, else save the state
ShellDone ==
    /\ eng["shell"].pc = "push_done"
    /\ eng' = [eng EXCEPT !["shell"] = EngIdle(@.st)]
    /\ disk' = IF eng["shell"].err THEN disk ELSE SaveState(eng["shell"].st)
    /\ UNCHANGED <<download, answer, fs, ldirs, now, rules, hashOn, rpaths, srv, sdirs, sclock, log,
                   pulling, events, debounce, pushCh, stopCh, loop, fsw, nrem, nusr,
                   nflt, hist>>

----------------------------------------------------------------------------
(* A crash of the process while SaveState writes the state file *)

\* what os.WriteFile leaves when the process dies in it: the old file (not
\* yet opened), a truncated or partly written file, or the new bytes
WriteFileCrashed(st) == {disk, DiskTorn, DiskOk(st)}

\* runPull reaches saveState and the process dies in it
CrashInSave ==
    /\ eng["watcher"].pc = "pull_done"
    /\ eng["watcher"].kind = "pull"
    /\ ~eng["watcher"].err
    /\ disk' \in WriteFileCrashed(StoreCursor(eng["watcher"]))
    /\ eng' = [eng EXCEPT !["watcher"] = EngIdle(EmptyState)]
    /\ loop' = "crashed"
    /\ pulling' = FALSE
    /\ UNCHANGED <<download, answer, fs, ldirs, now, rules, hashOn, rpaths, srv, sdirs, sclock, log,
                   events, debounce, pushCh, stopCh, fsw, nrem, nusr, nflt, hist>>

\* the watcher is started again: New loads the state file
Restart ==
    /\ loop = "crashed"
    /\ eng' = [eng EXCEPT !["watcher"] = EngIdle(LoadState)]
    /\ loop' = "select"
    /\ UNCHANGED <<download, answer, fs, ldirs, now, rules, hashOn, rpaths, srv, sdirs, sclock, log,
                   disk, pulling, events, debounce, pushCh, stopCh, fsw, nrem, nusr,
                   nflt, hist>>

----------------------------------------------------------------------------
(* The environment: other clients of the server, the user, the clock *)

RECURSIVE DirChanges(_, _)
DirChanges(ds, t) ==
    IF ds = <<>> THEN <<>>
    ELSE <<ChangeOf("directory", "created", Head(ds), Head(ds), 1, t)>>
         \o DirChanges(Tail(ds), t)

\* the missing ancestors of a remote path, outermost first
MissingDirs(path) ==
    LET n == Len(path) - 1
        missing == { k \in 1..n : SubSeq(path, 1, k) \notin sdirs }
    IN IF missing = {} THEN <<>>
       ELSE LET lo == CHOOSE k \in missing : \A j \in missing : k <= j
            IN [i \in 1..(n - lo + 1) |-> SubSeq(path, 1, lo + i - 1)]

\* another client creates or rewrites the file at a remote path
RemoteWrite(path, c) ==
    /\ nrem < MaxRemoteOps
    /\ LET t == sclock + 1
           md == MissingDirs(path)
       IN IF IdAt(path) = {}
          THEN /\ srv' = Append(srv, [path |-> path, content |-> c, utime |-> t,
                                      hasText |-> IsTextName(Base(path)),
                                      alive |-> TRUE])
               /\ sdirs' = sdirs \cup { md[i] : i \in 1..Len(md) }
               /\ log' = log \o DirChanges(md, t)
                             \o <<ChangeOf("file", "created", Len(srv) + 1, path, c, t)>>
          ELSE LET id == CHOOSE i \in IdAt(path) : TRUE IN
               /\ srv[id].content # c
               /\ srv' = [srv EXCEPT ![id].content = c, ![id].utime = t]
               /\ log' = Append(log, ChangeOf("file", "modified", id, path, c, t))
               /\ UNCHANGED sdirs
    /\ sclock' = sclock + 1
    /\ nrem' = nrem + 1
    /\ hist' = [hist EXCEPT !.snap = NoSnap]
    /\ UNCHANGED <<download, answer, fs, ldirs, now, rules, hashOn, rpaths, eng, disk, pulling,
                   events, debounce, pushCh, stopCh, loop, fsw, nusr, nflt>>

\* another client deletes the file at a remote path
RemoteDelete(path) ==
    /\ nrem < MaxRemoteOps
    /\ IdAt(path) # {}
    /\ LET id == CHOOSE i \in IdAt(path) : TRUE IN
       /\ srv' = [srv EXCEPT ![id].alive = FALSE, ![id].utime = sclock + 1]
       /\ log' = Append(log, ChangeOf("file", "deleted", id, path,
                                      srv[id].content, sclock + 1))
    /\ sclock' = sclock + 1
    /\ nrem' = nrem + 1
    /\ hist' = [hist EXCEPT !.snap = NoSnap]
    /\ UNCHANGED <<download, answer, fs, ldirs, now, rules, hashOn, rpaths, sdirs, eng, disk, pulling,
                   events, debounce, pushCh, stopCh, loop, fsw, nusr, nflt>>

\* the local paths the user works on: the local names of the remote paths
LocalName(path) ==
    LET rel == remoteToLocal(path) IN
    IF HasExt(Base(rel)) THEN rel ELSE AddSuffix(rel, "txt")

UserPaths == { LocalName(path) : path \in rpaths }

\* an event of the path survives the filters of the watcher loop: the path is
\* watched, no pull is in progress, and it is not noise (shouldIgnore)
Survives(f) == fsw = "open" /\ ~pulling /\ ~shouldIgnore(f)

\* the times of the last two surviving events, once the user touched f now
Noted(f) ==
    IF ~Survives(f) THEN hist.evs
    ELSE IF Len(hist.evs) < 2 THEN Append(hist.evs, now)
    ELSE <<hist.evs[2], now>>

\* the user saves a file
UserWrite(f, c) ==
    /\ f \in DOMAIN fs => fs[f].content # c
    /\ fs' = Put(fs, f, [content |-> c, mtime |-> now])
    /\ ldirs' = ldirs \cup Ancestors(f)
    /\ events' = Notify({f})
    /\ nusr' = nusr + 1
    /\ hist' = [hist EXCEPT !.snap.valid = FALSE, !.pulled = @ \ {f},
                            !.unlinked = @ \ {f}, !.evs = Noted(f)]
    /\ UNCHANGED <<download, answer, now, rules, hashOn, rpaths, srv, sdirs, sclock, log, eng, disk,
                   pulling, debounce, pushCh, stopCh, loop, fsw, nrem, nflt>>

\* f is in state.files of the watcher with a remote id, and no cycle runs
Tracked(f) ==
    /\ ~Busy("watcher")
    /\ f \in DOMAIN eng["watcher"].st.files
    /\ eng["watcher"].st.files[f].rid # NoId

\* the user removes a file
UserDelete(f) ==
    /\ f \in DOMAIN fs
    /\ fs' = Drop(fs, f)
    /\ events' = Notify({f})
    /\ nusr' = nusr + 1
    /\ hist' = [hist EXCEPT !.snap.valid = FALSE, !.pulled = @ \ {f},
                            !.unlinked = IF Tracked(f) THEN @ \cup {f} ELSE @,
                            !.evs = Noted(f)]
    /\ UNCHANGED <<download, answer, ldirs, now, rules, hashOn, rpaths, srv, sdirs, sclock, log, eng,
                   disk, pulling, debounce, pushCh, stopCh, loop, fsw, nrem, nflt>>

Tick ==
    /\ now < MaxTicks * TickSecs
    /\ now' = now + TickSecs
    /\ UNCHANGED <<download, answer, fs, ldirs, rules, hashOn, rpaths, srv, sdirs, sclock, log, eng,
                   disk, pulling, events, debounce, pushCh, stopCh, loop, fsw, nrem, nusr, nflt,
          hist>>

----------------------------------------------------------------------------
(* Initial states *)

Rule(pattern, negated, dirOnly) ==
    [pattern |-> pattern, negated |-> negated, dirOnly |-> dirOnly]

BuildDirRule == Rule(<< <<"build">> >>, FALSE, TRUE)

LogRule == Rule(<< <<"*", "log">> >>, FALSE, FALSE)

TextFile == <<RootDir, <<"a", "txt">>>>

NoteFile == <<RootDir, <<"a">>>>

BuildFile == <<RootDir, <<"build">>, <<"x", "o">>>>

OtherFile == <<<<"other">>, <<"x", "txt">>>>

\* a scenario: the server paths in play, the rules of .izeropignore, and
\* whether the server supplies content_hash
Scenario(paths, rs, h) == [paths |-> paths, rules |-> rs, hashOn |-> h]

PullScenarios ==
    { Scenario({TextFile}, <<>>, TRUE),
      Scenario({TextFile}, <<>>, FALSE),
      Scenario({NoteFile}, <<>>, TRUE),
      Scenario({BuildFile}, <<BuildDirRule, LogRule>>, TRUE) }

InitCommon(sc) ==
    /\ fs = <<>>
    /\ ldirs = {}
    /\ now = 0
    /\ rpaths = sc.paths
    /\ rules = sc.rules
    /\ hashOn = sc.hashOn
    /\ srv = <<>>
    /\ sclock = 0
    /\ log = <<>>
    /\ eng = [p \in Procs |-> EngIdle(EmptyState)]
    /\ disk = DiskNone
    /\ pulling = FALSE
    /\ events = {}
    /\ debounce = NoTimer
    /\ pushCh = FALSE
    /\ stopCh = FALSE
    /\ nrem = 0
    /\ nusr = 0
    /\ nflt = 0
    /\ hist = EmptyHist
    /\ download = NoDownload
    /\ answer = NoAnswer

Environment ==
    \/ \E path \in rpaths, c \in Contents : RemoteWrite(path, c)
    \/ \E path \in rpaths : RemoteDelete(path)
    \/ \E f \in UserPaths, c \in Contents : nusr < MaxUserOps /\ UserWrite(f, c)
    \/ \E f \in UserPaths : nusr < MaxUserOps /\ UserDelete(f)
    \/ Tick

(* The watcher polling the server: pull cycles only *)

InitPull ==
    /\ \E sc \in PullScenarios : InitCommon(sc)
    /\ sdirs = {<<RootDir>>}
    /\ loop = "select"
    /\ fsw = "closed"

NextPull ==
    \/ Environment
    \/ WPoll
    \/ PullFetch("watcher")
    \/ PullApply("watcher")
    \/ WPullDone

SpecPull == InitPull /\ [][NextPull]_vars

----------------------------------------------------------------------------------------------------------------------------------------
(* The watcher as Run drives it: startup cycle, polls, events, pushes *)

WatchScenarios ==
    { Scenario({TextFile}, <<>>, TRUE),
      Scenario({TextFile}, <<>>, FALSE),
      Scenario({NoteFile}, <<>>, TRUE) }

InitWatch ==
    /\ \E sc \in WatchScenarios : InitCommon(sc)
    /\ sdirs = {<<RootDir>>}
    /\ loop = "init"
    /\ fsw = "closed"

\* the environment of the watcher: one change by another client
EnvWatch ==
    \/ \E path \in rpaths, c \in Contents : nrem < WatchRemoteOps /\ RemoteWrite(path, c)
    \/ \E path \in rpaths : nrem < WatchRemoteOps /\ RemoteDelete(path)
    \/ \E f \in UserPaths, c \in Contents : nusr < MaxUserOps /\ UserWrite(f, c)
    \/ \E f \in UserPaths : nusr < MaxUserOps /\ UserDelete(f)
    \/ Tick

NextWatch ==
    \/ EnvWatch
    \/ WStart \/ WSyncPulled \/ WSyncDone
    \/ WPoll \/ WPullDone
    \/ WEvent \/ TimerFire \/ WPush \/ WPushDone
    \/ PullFetch("watcher") \/ PullApply("watcher")
    \/ PushInit("watcher") \/ PushWalk("watcher") \/ PushDeletions("watcher")

SpecWatch == InitWatch /\ [][NextWatch]_vars

----------------------------------------------------------------------------
(* The watcher and a one-shot sync of the shell on the same sync root *)

ShellScenarios == { Scenario({TextFile}, <<>>, TRUE) }

InitShell ==
    /\ \E sc \in ShellScenarios : InitCommon(sc)
    /\ sdirs = {<<RootDir>>}
    /\ loop = "init"
    /\ fsw = "closed"

EnvShell ==
    \E path \in rpaths, c \in Contents : nrem < WatchRemoteOps /\ RemoteWrite(path, c)

NextShell ==
    \/ EnvShell
    \/ WStart \/ WSyncPulled \/ WSyncDone \/ WPoll \/ WPullDone
    \/ ShellStart \/ ShellPulled \/ ShellDone
    \/ \E p \in Procs :
          \/ PullFetch(p) \/ PullApply(p)
          \/ PushInit(p) \/ PushWalk(p) \/ PushDeletions(p)

SpecShell == InitShell /\ [][NextShell]_vars

----------------------------------------------------------------------------
(* The polling watcher with crashes in SaveState *)

NextCrash ==
    \/ EnvShell
    \/ WPoll \/ PullFetch("watcher") \/ PullApply("watcher") \/ WPullDone
    \/ CrashInSave \/ Restart

SpecCrash == InitPull /\ [][NextCrash]_vars

----------------
(* Properties of the pull cycle *)

W == "watcher"

\* the pull of the watcher is applying the change at the head of its page
Applying == eng[W].pc = "pull_apply" /\ eng'[W] # eng[W]

CurChange == Head(eng[W].page)

CurFile == LocalName(CurChange.path)

\* C1: when a pull processes a create/modify change for f while f exists
\* locally with hash H_l, state.files[f] records another hash, and the change
\* reports a hash H_r # H_l, then afterwards the sidecar of f holds the content
\* with hash H_l and f holds the content with hash H_r.  Stated for a file the
\* recency guard lets through (last modified RecentSecs ago or earlier).
C1_ConflictPreserved ==
    [][ ( /\ Applying
          /\ CurFile \in DOMAIN fs
          /\ ~ActivelyEdited(fs[CurFile])
          /\ CurChange.type = "file"
          /\ CurChange.action \in {"created", "modified"}
          /\ CurFile \in DOMAIN fs
          /\ CurFile \in DOMAIN eng[W].st.files
          /\ eng[W].st.files[CurFile].hash # HashFile(fs[CurFile].content)
          /\ CurChange.hash # NoHash
          /\ CurChange.hash # HashFile(fs[CurFile].content) )
        => ( /\ ConflictPath(CurFile) \in DOMAIN fs'
             /\ HashFile(fs'[ConflictPath(CurFile)].content) = HashFile(fs[CurFile].content)
             /\ CurFile \in DOMAIN fs'
             /\ HashFile(fs'[CurFile].content) = CurChange.hash ) ]_vars

\* a path is matched by the ignore set: a rule ignores it, or a rule ignores
\* one of the directories above it
IgnoredPath(f) ==
    \/ IsIgnored(rules, f, FALSE)
    \/ \E d \in Ancestors(f) : IsIgnored(rules, d, TRUE)

\* C6: no pull downloads (creates or overwrites) a file matched by the ignore
\* set, also when the match is a directory-only rule on a directory above it.
C6_IgnoreHonored == \A f \in hist.pulled : ~IgnoredPath(f)

\* C8: state.cursor changes only when a pull whose pages were all fetched
\* returns, and becomes the next_cursor of its last page (has_more false);
\* a pull starts from the stored cursor; a failed pull leaves the cursor.
C8_CursorStep ==
    eng'[W].st.cursor # eng[W].st.cursor
    => /\ eng[W].pc = "pull_done"
       /\ ~eng[W].err
       /\ ~eng[W].hasMore
       /\ eng'[W].st.cursor = eng[W].pageCursor
       /\ eng[W].pageCursor <= Len(log)

C8_PullStart ==
    (eng[W].pc = "pull_fetch" /\ eng[W].depth = 0) => eng[W].cur = eng[W].st.cursor

\* C8: cursor discipline, every step of the watcher keeps both of the above
C8_CursorDiscipline == [][C8_CursorStep /\ C8_PullStart]_vars

C8_Witness ==
    /\ eng[W].pc = "idle"
    /\ eng[W].st.cursor = 2
    /\ hist.snap.valid /\ ~hist.snap.ok

\* C9: a change that a pull left unapplied (recency guard, soft error) is still
\* ahead of the stored cursor once the pull has returned, so that a later pull
\* fetches it again.
C9_Retried ==
    eng[W].pc = "idle" => \A i \in hist.unapplied : i > eng[W].st.cursor

----------------------------------------------------------------------------
(* Properties of the watcher's cycles *)

Uploads == {"update", "create", "upload"}

\* C2: the push that follows a pull makes no update, create or upload call
\* for a file that the pull installed and recorded (and that the user has not
\* touched since), whatever became of the events and with or without
\* content_hash.
C2_NoEcho ==
    \A c \in hist.calls : c.op \in Uploads => c.rel \notin hist.pulled

\* C4: an event generated while the engine was pulling is discarded when the
\* loop reads it: the settle timer is not set by it.
C4_PullEventsDiscarded ==
    [][ \A ev \in events :
          (ev.inPull /\ loop = "select" /\ events' = events \ {ev})
          => debounce' = debounce ]_vars

----------------------------------------------------------------------------
(* Properties of the process structure and of the state file *)

\* C3: at most one sync cycle runs at a time on a sync root: a one-shot sync
\* of the shell never overlaps a cycle of the watcher.
C3_OneCycleAtATime == ~(Busy("watcher") /\ Busy("shell"))

\* C7: whenever the process dies, also inside SaveState, the state file holds
\* a complete state (the one saved before or the new one): it is never left
\* empty, truncated or partly written, so that LoadState reads a saved state.
C7_StateFileWhole == disk.kind # "torn"

----------------------------------------------------------------------------
(* A round trip: a tree is pushed to an empty server (izerop sync            *)
(* --push-only), then a fresh peer with an empty directory and no state      *)
(* file pulls it (izerop sync --pull-only).                                  *)

RoundPaths ==
    { << <<"a", "txt">> >>, << <<"b">> >>, << <<"sub">>, <<"x", "o">> >> }

\* the trees: some of the paths, each with a content, written at second 0
RoundTrees ==
    UNION { [S -> [content : Contents, mtime : {0}]] : S \in SUBSET RoundPaths }

InitRound ==
    /\ \E T \in RoundTrees :
          /\ fs = T
          /\ ldirs = UNION { Ancestors(f) : f \in DOMAIN T }
          /\ hist = [EmptyHist EXCEPT !.round = [phase |-> "tree", tree |-> T]]
          /\ download = NoDownload
          /\ answer = NoAnswer
    /\ hashOn \in BOOLEAN
    /\ rules = <<LogRule>>
    /\ now = 0
    /\ rpaths = {}
    /\ srv = <<>>
    /\ sdirs = {}
    /\ sclock = 0
    /\ log = <<>>
    /\ eng = [p \in Procs |-> EngIdle(EmptyState)]
    /\ disk = DiskNone
    /\ pulling = FALSE
    /\ events = {}
    /\ debounce = NoTimer
    /\ pushCh = FALSE
    /\ stopCh = FALSE
    /\ loop = "init"
    /\ fsw = "closed"
    /\ nrem = 0
    /\ nusr = 0
    /\ nflt = 0

\* cmdSync --push-only: the state is loaded and PushSync is entered
RoundPush ==
    /\ hist.round.phase = "tree"
    /\ eng' = [eng EXCEPT !["shell"] = BeginPush(EngIdle(LoadState), "push_only")]
    /\ hist' = [hist EXCEPT !.round.phase = "push"]
    /\ UNCHANGED <<download, answer, fs, ldirs, now, rules, hashOn, rpaths, srv, sdirs, sclock, log,
                   disk, pulling, events, debounce, pushCh, stopCh, loop, fsw, nrem,
                   nusr, nflt>>

\* the push has returned; on the peer (an empty directory, no state file, no
\* .izeropignore) cmdSync --pull-only loads the empty state and enters PullSync
PeerPull ==
    /\ hist.round.phase = "push"
    /\ eng["shell"].pc = "push_done"
    /\ fs' = <<>>
    /\ ldirs' = {}
    /\ rules' = <<>>
    /\ disk' = DiskNone
    /\ eng' = [eng EXCEPT !["shell"] = BeginPull(EngIdle(EmptyState), "pull_only")]
    /\ hist' = [hist EXCEPT !.round.phase = "pull"]
    /\ UNCHANGED <<download, answer, now, hashOn, rpaths, srv, sdirs, sclock, log, pulling, events,
                   debounce, pushCh, stopCh, loop, fsw, nrem, nusr, nflt>>

\* cmdSync after PullSync returned: the cursor is stored if there was no
\* error, and the state is saved
PeerDone ==
    /\ hist.round.phase = "pull"
    /\ eng["shell"].pc = "pull_done"
    /\ eng' = [eng EXCEPT !["shell"] = EngIdle(StoreCursor(eng["shell"]))]
    /\ disk' = SaveState(StoreCursor(eng["shell"]))
    /\ hist' = [hist EXCEPT !.round.phase = "done"]
    /\ UNCHANGED <<download, answer, fs, ldirs, now, rules, hashOn, rpaths, srv, sdirs, sclock, log,
                   pulling, events, debounce, pushCh, stopCh, loop, fsw, nrem, nusr,
                   nflt>>

NextRound ==
    \/ RoundPush
    \/ PushInit("shell") \/ PushWalk("shell") \/ PushDeletions("shell")
    \/ PeerPull
    \/ PullFetch("shell") \/ PullApply("shell")
    \/ PeerDone

SpecRound == InitRound /\ [][NextRound]_vars

----------------------------------------------------------------------------
(* Properties of the combined cycle (Watcher.runSync) *)

PullPcs == {"pull_fetch", "pull_apply", "pull_done"}

PushPcs == {"push_init", "push_walk", "push_del", "push_done"}

InSync == eng[W].kind = "sync"

\* pulling is set for as long as the pull of the cycle runs, and clear while
\* its push runs
C12_Flag ==
    /\ (InSync /\ eng[W].pc \in PullPcs) => pulling
    /\ (InSync /\ eng[W].pc \in PushPcs) => ~pulling

\* the push of the cycle begins only once PullSync has returned (with or
\* without an error), and no step of the pull follows it
C12_Order ==
    /\ (eng'[W].kind = "sync" /\ eng'[W].pc = "push_init" /\ eng[W].pc # "push_init")
       => (InSync /\ eng[W].pc = "pull_done" /\ pulling /\ ~pulling')
    /\ (InSync /\ eng[W].pc \in PushPcs) => eng'[W].pc \notin PullPcs \/ ~InSync'

\* C12: in every combined cycle of the watcher the pull runs to completion
\* before the push begins, pulling is true for the whole pull and false when
\* the push starts, also when the pull returned a hard error.
C12_PullBeforePush == []C12_Flag /\ [][C12_Order]_vars

\* the push of a combined cycle runs after its pull returned a hard error
C12_Witness ==
    /\ InSync
    /\ eng[W].pc = "push_walk"
    /\ hist.pullErr
    /\ ~pulling

\* two trees hold the same relative paths with the same bytes
SameTree(t1, t2) ==
    /\ DOMAIN t1 = DOMAIN t2
    /\ \A f \in DOMAIN t1 : t1[f].content = t2[f].content

\* C11: round trip.  When a tree without ignored paths has been pushed to an
\* empty server and a fresh peer has pulled with the empty state, and no call
\* failed on the way, the peer's tree has the same relative paths and the same
\* contents as the tree that was pushed.
C11_RoundTrip ==
    (hist.round.phase = "done" /\ nflt = 0) => SameTree(fs, hist.round.tree)

----------------------------------------------------------------------------
(* The watcher with a clock that measures the settle time.  Time passes     *)
(* while a cycle runs (its network calls take time) or while the loop waits *)
(* in select with nothing to read; the settle timer fires on time.          *)

DebounceOps == 2

MaxSettleSteps == 4

HalfSettle == SettleTime \div 2

\* HalfSettle seconds pass
Pass ==
    /\ now < MaxSettleSteps * HalfSettle
    /\ loop # "select" \/ (events = {} /\ ~pushCh)
    /\ debounce.armed => now + HalfSettle <= debounce.at
    /\ now' = now + HalfSettle
    /\ UNCHANGED <<download, answer, fs, ldirs, rules, hashOn, rpaths, srv, sdirs, sclock, log, eng,
                   disk, pulling, events, debounce, pushCh, stopCh, loop, fsw, nrem,
                   nusr, nflt, hist>>

InitDebounce ==
    /\ InitCommon(Scenario({TextFile}, <<>>, TRUE))
    /\ sdirs = {<<RootDir>>}
    /\ loop = "init"
    /\ fsw = "closed"

NextDebounce ==
    \/ \E f \in UserPaths, c \in Contents : nusr < DebounceOps /\ UserWrite(f, c)
    \/ Pass
    \/ WStart \/ WSyncPulled \/ WSyncDone
    \/ WPoll \/ WPullDone
    \/ WEvent
    \/ (Due /\ TimerFire)
    \/ WPush \/ WPushDone
    \/ PullFetch("watcher") \/ PullApply("watcher")
    \/ PushInit("watcher") \/ PushWalk("watcher") \/ PushDeletions("watcher")

SpecDebounce == InitDebounce /\ [][NextDebounce]_vars

\* the last two surviving events are one burst: less than SettleTime apart
OneBurst == Len(hist.evs) = 2 /\ hist.evs[2] - hist.evs[1] < SettleTime

\* a push request is put into pushCh
Enqueued == pushCh' /\ ~pushCh

\* C13: debounce.  A burst of surviving events results in one push request,
\* enqueued SettleTime after the last event of the burst: no push request is
\* enqueued while the last event of a burst (which happened before this
\* instant) is less than SettleTime old.
C13_PushAfterQuiet ==
    [][ (Enqueued /\ OneBurst /\ hist.evs[2] < now)
        => now >= hist.evs[2] + SettleTime ]_vars

----------------------------------------------------------------------------
(* The watcher and Watcher.Stop.  select takes any one of the cases that    *)
(* are ready: a closed stopCh is always ready, and so may be the poll       *)
(* ticker, a push request or an event.                                      *)

NextStop ==
    \/ EnvShell
    \/ \E f \in UserPaths, c \in Contents : nusr < MaxUserOps /\ UserWrite(f, c)
    \/ WStart \/ WSyncPulled \/ WSyncDone
    \/ WPoll \/ WPullDone
    \/ WEvent \/ TimerFire \/ WPush \/ WPushDone
    \/ PullFetch("watcher") \/ PullApply("watcher")
    \/ PushInit("watcher") \/ PushWalk("watcher") \/ PushDeletions("watcher")
    \/ Stop \/ WStop

SpecStop == InitDebounce /\ [][NextStop]_vars

\* the loop starts a cycle: runPull or runPush is entered from select
CycleStarts == eng[W].pc = "idle" /\ eng'[W].pc \in {"pull_fetch", "push_init"}

\* C14: once the stop signal has been raised, the next iteration of the loop
\* handles it: the watcher starts no further pull or push (it saves the
\* state, closes the subscription and returns).
C14_StopHonored == [][ stopCh => ~CycleStarts ]_vars

----------------------------------------------------------------------------
(* The watcher on a reliable network, run to quiescence: another client     *)
(* and the user each change the file a bounded number of times.            *)


\* the server holds the history of a file that another client created and deleted
InitQuiet ==
    /\ hashOn \in BOOLEAN
    /\ fs = <<>>
    /\ ldirs = {}
    /\ now = 0
    /\ rpaths = {TextFile}
    /\ rules = <<>>
    /\ srv = << [path |-> TextFile, content |-> 1, utime |-> 2,
                 hasText |-> TRUE, alive |-> FALSE] >>
    /\ sdirs = {<<RootDir>>}
    /\ sclock = 2
    /\ log = << ChangeOf("file", "created", 1, TextFile, 1, 1),
                ChangeOf("file", "deleted", 1, TextFile, 1, 2) >>
    /\ eng = [p \in Procs |-> EngIdle(EmptyState)]
    /\ disk = DiskNone
    /\ pulling = FALSE
    /\ events = {}
    /\ debounce = NoTimer
    /\ pushCh = FALSE
    /\ stopCh = FALSE
    /\ loop = "init"
    /\ fsw = "closed"
    /\ nrem = 0
    /\ nusr = 0
    /\ nflt = MaxFaults
    /\ hist = EmptyHist
    /\ download = NoDownload
    /\ answer = NoAnswer

EnvQuiet ==
    \/ \E path \in rpaths, c \in Contents : nrem < WatchRemoteOps /\ RemoteWrite(path, c)
    \/ \E f \in UserPaths, c \in Contents : nusr < MaxUserOps /\ UserWrite(f, c)
    \/ Tick

WatcherSteps ==
    \/ WStart \/ WSyncPulled \/ WSyncDone
    \/ WPoll \/ WPullDone
    \/ WEvent \/ TimerFire \/ WPush \/ WPushDone
    \/ PullFetch("watcher") \/ PullApply("watcher")
    \/ PushInit("watcher") \/ PushWalk("watcher") \/ PushDeletions("watcher")

NextQuiet == EnvQuiet \/ WatcherSteps

SpecQuiet == InitQuiet /\ [][NextQuiet]_vars /\ WF_vars(WatcherSteps)

Transfer == eng'[W] # eng[W] /\ (fs' # fs \/ srv' # srv)

----------------------------------------------------------------------------
(* The state file after a cycle that failed *)

\* a pull or push cycle of the watcher returns to the loop with a hard error
ReturnsError ==
    /\ eng[W].pc \in {"pull_done", "push_done"}
    /\ eng[W].err
    /\ eng'[W].pc = "idle"

\* C16: when a cycle ends with a hard error, the state file holds the
\* in-memory state, with what the cycle changed in it, once the cycle call
\* has returned.
C16_SavedOnError == [][ ReturnsError => LoadState' = eng'[W].st ]_vars

----------------------------------------------------------------------------
(* Engine.Reconcile and cmdReconcile (izerop reconcile [--dry-run]).  o     *)
(* says which calls succeed: o.manifest, o.dirs (ListDirectories), o.write, *)
(* o.dl (DownloadFile), o.copy (copyFile).                                  *)

ReconcileWorld(p) ==
    [fs |-> fs, ldirs |-> ldirs, st |-> eng[p].st, res |-> ZeroResult,
     wrote |-> {}, srv |-> srv, sdirs |-> sdirs, log |-> log, sclock |-> sclock,
     calls |-> {}, rdirs |-> {}, err |-> FALSE]

\* get_manifest(root): the directories and files under the root
GetManifest(w) ==
    [directories |-> UnderRoot(w.sdirs), files |-> ListFiles(UnderRoot(w.sdirs))]

\* Engine.initRootDir: the root directory is looked up, and created when
\* the listing does not show it
initRootDir(w, o) ==
    IF ~o.dirs THEN [w EXCEPT !.err = TRUE]
    ELSE IF <<RootDir>> \in w.sdirs THEN [w EXCEPT !.rdirs = w.sdirs]
    ELSE IF ~o.write
         THEN [w EXCEPT !.err = TRUE, !.calls = @ \cup {Call("mkdir", <<>>)}]
         ELSE [CreateDirectory(w, <<RootDir>>) EXCEPT
                  !.rdirs = w.sdirs \cup {<<RootDir>>},
                  !.calls = @ \cup {Call("mkdir", <<>>)}]

\* the key of remoteByPath: the path below the root, a note with .txt
ManifestRel(path) ==
    LET rel == remoteToLocal(path) IN
    IF HasExt(Base(rel)) THEN rel ELSE AddSuffix(rel, "txt")

remoteByPath(files) ==
    [ r \in { ManifestRel(p) : p \in DOMAIN files } |->
        files[CHOOSE p \in DOMAIN files : ManifestRel(p) = r] ]

\* phase 1 at one file of the manifest
reconcileRemote(w, rel, remote, dryRun, o) ==
    LET exists  == rel \in DOMAIN w.fs
        tracked == rel \in DOMAIN w.st.files
        content == w.srv[remote.id].content
        isNote  == ~HasExt(Base(w.srv[remote.id].path))
        modified == tracked /\ w.st.files[rel].hash # NoHash
                    /\ w.st.files[rel].hash # HashFile(w.fs[rel].content)
        copied(x) == IF dryRun \/ ~o.copy THEN x
                     ELSE [x EXCEPT !.fs = Put(@, ConflictPath(rel),
                                       [content |-> x.fs[rel].content, mtime |-> now]),
                                    !.wrote = @ \cup {ConflictPath(rel)}]
        w1 == IF exists /\ modified
              THEN [copied(w) EXCEPT !.res = Bump(@, "conflicts")]
              ELSE w
    IN
    IF IsIgnored(rules, rel, FALSE) THEN w
    ELSE IF exists /\ remote.hash # NoHash /\ HashFile(w.fs[rel].content) = remote.hash
    THEN [w EXCEPT !.st.files = Put(@, rel, FileRecord(remote.id, w.fs[rel].content,
                                                      remote.utime, w.fs[rel].mtime)),
                   !.res = Bump(@, "skipped")]
    ELSE IF dryRun THEN [w1 EXCEPT !.res = Bump(@, "downloaded")]
    ELSE IF ~o.dl THEN [w1 EXCEPT !.fs = Drop(@, TmpPath(rel)),
                                  !.res = Bump(@, "errors")]
    ELSE [w1 EXCEPT
            !.ldirs = @ \cup Ancestors(rel),
            !.fs = Put(Drop(@, TmpPath(rel)), rel, [content |-> content, mtime |-> now]),
            !.wrote = @ \cup {rel},
            !.st.files = Put(@, rel, FileRecord(remote.id, content, remote.utime, now)),
            !.st.notes = IF ~exists /\ isNote THEN Put(@, rel, remote.id) ELSE @,
            !.res = Bump(@, "downloaded")]

\* phase 2 at one local file
reconcileLocal(w, rel, byPath, dryRun, o) ==
    IF HasConflict(Base(rel)) \/ IsTmp(Base(rel)) THEN w
    ELSE IF IsIgnored(rules, rel, FALSE) THEN w
    ELSE IF rel \in DOMAIN byPath THEN w
    ELSE IF rel \in DOMAIN w.st.files /\ w.st.files[rel].rid # NoId
    THEN IF dryRun THEN [w EXCEPT !.res = Bump(@, "deleted")]
         ELSE [w EXCEPT !.fs = Drop(@, rel),
                        !.wrote = @ \cup {rel},
                        !.st.files = Drop(@, rel),
                        !.st.notes = Drop(@, rel),
                        !.res = Bump(@, "deleted")]
    ELSE IF dryRun THEN [w EXCEPT !.res = Bump(@, "uploaded")]
    ELSE pushCreate([w EXCEPT !.rdirs = IF o.dirs THEN w.sdirs ELSE {}], rel, o)

RECURSIVE ReconcileRemotes(_, _, _, _, _)
ReconcileRemotes(w, rels, byPath, dryRun, o) ==
    IF rels = {} THEN w
    ELSE LET r == CHOOSE x \in rels : TRUE
         IN ReconcileRemotes(reconcileRemote(w, r, byPath[r], dryRun, o),
                             rels \ {r}, byPath, dryRun, o)

RECURSIVE ReconcileLocals(_, _, _, _, _)
ReconcileLocals(w, rels, byPath, dryRun, o) ==
    IF rels = {} THEN w
    ELSE LET r == CHOOSE x \in rels : TRUE
         IN ReconcileLocals(reconcileLocal(w, r, byPath, dryRun, o),
                            rels \ {r}, byPath, dryRun, o)

\* Engine.Reconcile(dryRun)
Reconcile(w, dryRun, o) ==
    LET manifest == GetManifest(w)
        w1 == initRootDir(w, o)
        byPath == remoteByPath(manifest.files)
        dirs == { remoteToLocal(d) : d \in manifest.directories } \ {<<>>}
        w2 == IF dryRun THEN w1
              ELSE [w1 EXCEPT !.ldirs = @ \cup dirs
                                 \cup UNION { Ancestors(d) : d \in dirs }]
        w3 == ReconcileRemotes(w2, DOMAIN byPath, byPath, dryRun, o)
        walked == { f \in DOMAIN w3.fs :
                      ~IsHidden(Base(f)) /\ \A d \in Ancestors(f) : ~IsHidden(Base(d)) }
    IN
    IF ~o.manifest THEN [w EXCEPT !.err = TRUE]
    ELSE IF w1.err THEN w1
    ELSE ReconcileLocals(w3, walked, byPath, dryRun, o)

ReconcileOutcomes ==
    [manifest : BOOLEAN, dirs : BOOLEAN, write : BOOLEAN, dl : BOOLEAN, copy : BOOLEAN]

AllFine == [manifest |-> TRUE, dirs |-> TRUE, write |-> TRUE, dl |-> TRUE, copy |-> TRUE]

\* cmdReconcile: the state is loaded and the engine made
ReconcileStart(dryRun) ==
    /\ eng["shell"].pc = "idle"
    /\ eng' = [eng EXCEPT !["shell"] =
                 [EngIdle(LoadState) EXCEPT
                    !.pc = "reconcile",
                    !.kind = IF dryRun THEN "dry_run" ELSE "reconcile"]]
    /\ UNCHANGED <<download, answer, fs, ldirs, now, rules, hashOn, rpaths, srv, sdirs, sclock, log,
                   disk, pulling, events, debounce, pushCh, stopCh, loop, fsw, nrem,
                   nusr, nflt, hist>>

\* engine.Reconcile(dryRun) runs
ReconcileRun ==
    /\ eng["shell"].pc = "reconcile"
    /\ \E o \in ReconcileOutcomes :
         /\ o # AllFine => nflt < MaxFaults
         /\ nflt' = IF o # AllFine THEN nflt + 1 ELSE nflt
         /\ LET w == Reconcile(ReconcileWorld("shell"),
                               eng["shell"].kind = "dry_run", o) IN
            /\ fs' = w.fs
            /\ ldirs' = w.ldirs
            /\ srv' = w.srv
            /\ sdirs' = w.sdirs
            /\ log' = w.log
            /\ sclock' = w.sclock
            /\ events' = Notify(w.wrote)
            /\ eng' = [eng EXCEPT !["shell"] = [@ EXCEPT !.pc = "reconcile_done",
                                                         !.st = w.st, !.res = w.res,
                                                         !.err = w.err]]
            /\ hist' = [hist EXCEPT !.calls = @ \cup w.calls]
    /\ UNCHANGED <<download, answer, now, rules, hashOn, rpaths, disk, pulling, debounce, pushCh,
                   stopCh, loop, fsw, nrem, nusr>>

\* cmdReconcile after Reconcile returned: the state is saved unless the run
\* failed or was a dry run
ReconcileDone ==
    /\ eng["shell"].pc = "reconcile_done"
    /\ eng' = [eng EXCEPT !["shell"] = EngIdle(@.st)]
    /\ disk' = IF eng["shell"].err \/ eng["shell"].kind = "dry_run"
               THEN disk ELSE SaveState(eng["shell"].st)
    /\ UNCHANGED <<download, answer, fs, ldirs, now, rules, hashOn, rpaths, srv, sdirs, sclock, log,
                   pulling, events, debounce, pushCh, stopCh, loop, fsw, nrem, nusr,
                   nflt, hist>>

\* the server has no root directory yet, or it has the root and one file
\* that another client has created
InitReconcile ==
    /\ hashOn = TRUE
    /\ fs = <<>>
    /\ ldirs = {}
    /\ now = 0
    /\ rpaths = {TextFile}
    /\ rules = <<>>
    /\ \/ /\ srv = <<>>
          /\ sdirs = {}
          /\ sclock = 0
          /\ log = <<>>
       \/ /\ srv = << [path |-> TextFile, content |-> 1, utime |-> 1,
                       hasText |-> TRUE, alive |-> TRUE] >>
          /\ sdirs = {<<RootDir>>}
          /\ sclock = 1
          /\ log = << ChangeOf("file", "created", 1, TextFile, 1, 1) >>
    /\ eng = [p \in Procs |-> EngIdle(EmptyState)]
    /\ disk = DiskNone
    /\ pulling = FALSE
    /\ events = {}
    /\ debounce = NoTimer
    /\ pushCh = FALSE
    /\ stopCh = FALSE
    /\ loop = "init"
    /\ fsw = "closed"
    /\ nrem = 0
    /\ nusr = 0
    /\ nflt = 0
    /\ hist = EmptyHist
    /\ download = NoDownload
    /\ answer = NoAnswer

EnvReconcile ==
    \/ \E path \in rpaths, c \in Contents : nrem < WatchRemoteOps /\ RemoteWrite(path, c)
    \/ \E path \in rpaths : nrem < WatchRemoteOps /\ RemoteDelete(path)
    \/ \E f \in UserPaths, c \in Contents : nusr < MaxUserOps /\ UserWrite(f, c)
    \/ Tick

NextReconcile ==
    \/ EnvReconcile
    \/ \E dryRun \in BOOLEAN : ReconcileStart(dryRun)
    \/ ReconcileRun
    \/ ReconcileDone
    \/ ShellStart \/ ShellPulled \/ ShellDone
    \/ PullFetch("shell") \/ PullApply("shell")
    \/ PushInit("shell") \/ PushWalk("shell") \/ PushDeletions("shell")

SpecReconcile == InitReconcile /\ [][NextReconcile]_vars

DryRunStep ==
    /\ eng["shell"].pc = "reconcile"
    /\ eng["shell"].kind = "dry_run"
    /\ eng'["shell"].pc = "reconcile_done"

\* C17: a dry run of Reconcile changes nothing in the local tree, makes no
\* write call to the server and leaves the sync state as it was, for every
\* manifest and local tree, with or without the remote root directory.
C17_DryRun ==
    [][ DryRunStep => /\ fs' = fs /\ ldirs' = ldirs
                      /\ srv' = srv /\ sdirs' = sdirs /\ log' = log
                      /\ eng'["shell"].st = eng["shell"].st ]_vars

\* C18: no push and no reconcile makes an update, create or upload call for
\* a local file whose name contains .conflict.
C18_SidecarsStayLocal ==
    \A c \in hist.calls : c.op \in Uploads => ~HasConflict(Base(c.rel))

\* a push has walked a tree that held a conflict copy before the walk began
C18_Witness ==
    /\ eng["shell"].pc = "push_del"
    /\ eng["shell"].res.conflicts = 0
    /\ \E f \in DOMAIN fs : HasConflict(Base(f))

----------------------------------------------------------------------------
(* Client.DownloadFile: the redirects of a download.  A request is the host *)
(* of its URL and whether it carries the Authorization header.              *)

ApiHost == "api"

Hosts == {ApiHost, "storage"}

Request(host, auth) == [host |-> host, auth |-> auth]

CheckRedirect_LastHop(req, via) ==
    [err |-> Len(via) >= MaxRedirects,
     req |-> IF Len(via) > 0 /\ req.host # via[Len(via)].host
             THEN [req EXCEPT !.auth = FALSE] ELSE req]

\* CheckRedirect of the http.Client: req is the request about to be sent,
\* via the requests made so far, the first of them the original one
CheckRedirect(req, via) ==
    [err |-> Len(via) >= MaxRedirects,
     req |-> IF Len(via) > 0 /\ req.host # via[1].host
             THEN [req EXCEPT !.auth = FALSE] ELSE req]

\* the request to the API is sent with the token
DownloadFile ==
    /\ download.status = "idle"
    /\ download' = [via |-> <<Request(ApiHost, TRUE)>>, status |-> "sent",
                    redirects |-> 0]
    /\ UNCHANGED <<fs, ldirs, now, rules, hashOn, rpaths, srv, sdirs, sclock, log, eng,
                   disk, pulling, events, debounce, pushCh, stopCh, loop, fsw, nrem, nusr,
                   nflt, hist, answer>>

\* the answer is a redirect to a host: net/http builds the next request, with
\* the Authorization header of the first request copied or left out, asks
\* CheckRedirect and sends the request unless CheckRedirect says no
Redirected(host, copied) ==
    /\ download.status = "sent"
    /\ LET chk == CheckRedirect(Request(host, copied), download.via) IN
       download' = IF chk.err
                   THEN [download EXCEPT !.status = "error", !.redirects = @ + 1]
                   ELSE [download EXCEPT !.via = Append(@, chk.req),
                                         !.redirects = @ + 1]
    /\ UNCHANGED <<fs, ldirs, now, rules, hashOn, rpaths, srv, sdirs, sclock, log, eng,
                   disk, pulling, events, debounce, pushCh, stopCh, loop, fsw, nrem, nusr,
                   nflt, hist, answer>>

\* the answer is the file
Downloaded ==
    /\ download.status = "sent"
    /\ download' = [download EXCEPT !.status = "done"]
    /\ UNCHANGED <<fs, ldirs, now, rules, hashOn, rpaths, srv, sdirs, sclock, log, eng,
                   disk, pulling, events, debounce, pushCh, stopCh, loop, fsw, nrem, nusr,
                   nflt, hist, answer>>

InitDownload ==
    /\ InitCommon(Scenario({TextFile}, <<>>, TRUE))
    /\ sdirs = {<<RootDir>>}
    /\ loop = "init"
    /\ fsw = "closed"

NextDownload ==
    \/ DownloadFile
    \/ \E host \in Hosts, copied \in BOOLEAN : Redirected(host, copied)
    \/ Downloaded

SpecDownload == InitDownload /\ [][NextDownload]_vars

\* C19: no request of a download that goes to a host other than the API's
\* carries the Authorization header, a download that is redirected fewer
\* than 10 times is not refused, and the 10th redirect ends it in an error.
C19_NoTokenLeak ==
    /\ \A i \in 1..Len(download.via) :
          download.via[i].host # ApiHost => ~download.via[i].auth
    /\ download.redirects >= MaxRedirects <=> download.status = "error"

\* a download that went to the storage host, came back to the API with the
\* token, and got its file after 9 redirects
C19_Witness ==
    /\ download.status = "done"
    /\ download.redirects = MaxRedirects - 1
    /\ \E i \in 2..(Len(download.via) - 1) :
          /\ download.via[i].host # ApiHost
          /\ download.via[i + 1].host = ApiHost
          /\ download.via[i + 1].auth

----------------------------------------------------------------------------
(* IgnoreRules.IsIgnored as a function of the rules, the path and isDir *)

RuleChoices ==
    { Rule(<< <<"*", "log">> >>, FALSE, FALSE),
      Rule(<< <<"a", "log">> >>, TRUE, FALSE),
      Rule(<< <<"build">> >>, FALSE, TRUE),
      Rule(<< <<"build">> >>, TRUE, FALSE) }

RuleLists == UNION { [1..n -> RuleChoices] : n \in 0..MaxRules }

IgnorePaths ==
    { << <<"a", "log">> >>, << <<"build">> >>, << <<"build">>, <<"b", "log">> >>,
      << <<"c", "txt">> >> }

InitIgnore ==
    /\ \E rs \in RuleLists : InitCommon(Scenario({TextFile}, rs, TRUE))
    /\ sdirs = {<<RootDir>>}
    /\ loop = "init"
    /\ fsw = "closed"

\* r.IsIgnored(relPath, isDir) is called
CallIsIgnored(relPath, isDir) ==
    /\ answer' = [called |-> TRUE, relPath |-> relPath, isDir |-> isDir,
                  ignored |-> IsIgnored(rules, relPath, isDir)]
    /\ UNCHANGED <<fs, ldirs, now, rules, hashOn, rpaths, srv, sdirs, sclock, log, eng,
                   disk, pulling, events, debounce, pushCh, stopCh, loop, fsw, nrem, nusr,
                   nflt, hist, download>>

NextIgnore == \E relPath \in IgnorePaths, isDir \in BOOLEAN : CallIsIgnored(relPath, isDir)

SpecIgnore == InitIgnore /\ [][NextIgnore]_vars

\* a rule is considered for the path and matches it
Applies(p, relPath, isDir) ==
    (p.dirOnly => isDir) /\ matchPattern(p.pattern, relPath, Base(relPath))

\* the place of the last rule that applies, 0 when there is none
LastMatching(ps, relPath, isDir) ==
    LET hits == { i \in 1..Len(ps) : Applies(ps[i], relPath, isDir) } IN
    IF hits = {} THEN 0 ELSE CHOOSE i \in hits : \A j \in hits : j <= i

\* C20: IsIgnored answers true exactly when the last rule, in file order,
\* that matches the path is not negated, rules for directories being left
\* out for a file; without a matching rule the path is not ignored.
C20_LastMatchWins ==
    answer.called =>
        LET k == LastMatching(rules, answer.relPath, answer.isDir) IN
        answer.ignored <=> (k # 0 /\ ~rules[k].negated)

\* a path that an earlier rule ignores and a later negated rule takes back
C20_Witness ==
    /\ answer.called
    /\ ~answer.ignored
    /\ \E i \in 1..Len(rules) :
          /\ Applies(rules[i], answer.relPath, answer.isDir)
          /\ ~rules[i].negated

----------------------------------------------------------------------------
(* What a pull leaves behind for one change *)

\* C21: when a pull has processed a deleted change of a file (the path under
\* the root and not ignored), the local file does not exist and the path is
\* neither in state.files nor in state.notes.
C21_DeletedForgotten ==
    [][ ( /\ Applying
          /\ CurChange.type = "file"
          /\ CurChange.action = "deleted"
          /\ ~IsIgnored(rules, CurFile, FALSE) )
        => ( /\ CurFile \notin DOMAIN fs'
             /\ CurFile \notin DOMAIN eng'[W].st.files
             /\ CurFile \notin DOMAIN eng'[W].st.notes ) ]_vars

----------------------------------------------------------------------------
(* A one-shot sync that is killed while it downloads, and the syncs after   *)
(* it: the temp file of the download stays in the sync directory.           *)

\* the process dies between os.Create(tmpPath) and os.Rename: the temp file
\* holds the bytes written so far
KilledInDownload ==
    /\ eng["shell"].pc = "pull_apply"
    /\ nusr < MaxUserOps
    /\ LET e == eng["shell"]
           c == Head(e.page)
           w == handleFileChange(World("shell"), c, [fail |-> "rename", copy |-> TRUE],
                                 srv[c.id].content)
       IN /\ c.type = "file"
          /\ srv[c.id].alive
          /\ handleFileChange(World("shell"), c, [fail |-> "none", copy |-> TRUE],
                              srv[c.id].content).res.downloaded > e.res.downloaded
          /\ \E part \in Contents :
                fs' = Put(w.fs, TmpPath(LocalName(c.path)),
                          [content |-> part, mtime |-> now])
          /\ ldirs' = w.ldirs
          /\ events' = Notify(w.wrote)
    /\ eng' = [eng EXCEPT !["shell"] = EngIdle(EmptyState)]
    /\ nusr' = nusr + 1
    /\ UNCHANGED <<download, answer, now, rules, hashOn, rpaths, srv, sdirs, sclock, log,
                   disk, pulling, debounce, pushCh, stopCh, loop, fsw, nrem, nflt, hist>>

NextTemp ==
    \/ EnvShell
    \/ Tick
    \/ ShellStart \/ ShellPulled \/ ShellDone
    \/ PullFetch("shell") \/ PullApply("shell")
    \/ PushInit("shell") \/ PushWalk("shell") \/ PushDeletions("shell")
    \/ KilledInDownload

SpecTemp == InitShell /\ [][NextTemp]_vars

\* C26: no push makes an update, create or upload call for a local file
\* whose name ends in .izerop-tmp.
C26_TempReserved ==
    \A c \in hist.calls : c.op \in Uploads => ~IsTmp(Base(c.rel))

\* the pull of the one-shot sync reports a soft error and no download for
\* the file change at the head of its page: its install failed
InstallFails ==
    /\ eng["shell"].pc = "pull_apply"
    /\ Head(eng["shell"].page).type = "file"
    /\ Head(eng["shell"].page).action \in {"created", "modified"}
    /\ eng'["shell"].pc \in {"pull_apply", "pull_fetch", "pull_done"}
    /\ eng'["shell"].res.errors > eng["shell"].res.errors
    /\ eng'["shell"].res.downloaded = eng["shell"].res.downloaded

Entry(f, k) == IF k \in DOMAIN f THEN <<f[k]>> ELSE <<>>

\* C22: when a step of the install of a downloaded file fails, the file
\* keeps its bytes, the entries of the path in state.files and state.notes
\* stay as they were, no temp file of the path remains, and the pull goes on.
C22_FailedInstall ==
    [][ InstallFails =>
          LET f == LocalName(Head(eng["shell"].page).path) IN
          /\ Entry(fs', f) = Entry(fs, f)
          /\ Entry(eng'["shell"].st.files, f) = Entry(eng["shell"].st.files, f)
          /\ Entry(eng'["shell"].st.notes, f) = Entry(eng["shell"].st.notes, f)
          /\ TmpPath(f) \notin DOMAIN fs'
          /\ ~eng'["shell"].err ]_vars

----------------------------------------------------------------------------
(* The stats of a pull of several pages *)

StatFields == {"downloaded", "deleted", "skipped", "conflicts", "errors"}

\* PullSync of the watcher returns without an error
PullReturns ==
    /\ eng[W].pc \in {"pull_fetch", "pull_apply"}
    /\ eng'[W].pc = "pull_done"
    /\ ~eng'[W].err

\* the conflict copies that the step writes
NewSidecars == { f \in DOMAIN fs' \ DOMAIN fs : HasConflict(Base(f)) }

\* C23: the stats a pull returns cover every page: each count is at least
\* what the pages counted up to the last step, and the conflicts include the
\* conflict copy the last step saved.
C23_StatsCoverPages ==
    [][ PullReturns =>
          /\ \A k \in StatFields : eng'[W].res[k] >= eng[W].res[k]
          /\ eng'[W].res.conflicts >= eng[W].res.conflicts + Cardinality(NewSidecars) ]_vars

----------------------------------------------------------------------------
(* What the walk of a push does with a tracked file that the listing shows *)

\* the walk of the push of the one-shot sync
ShellWalks == eng["shell"].pc = "push_walk" /\ eng'["shell"].pc = "push_del"

\* f is a regular file that the walk compares with the remote file at its path
Compared(f) ==
    /\ f \in DOMAIN fs
    /\ Walked(f)
    /\ ~IsHidden(Base(f))
    /\ ~HasConflict(Base(f))
    /\ ~IsIgnored(rules, f, FALSE)
    /\ f \notin DOMAIN eng["shell"].st.notes
    /\ f \in DOMAIN eng["shell"].st.files
    /\ localToRemote(f) \in DOMAIN eng["shell"].rfiles

RemoteOf(f) == eng["shell"].rfiles[localToRemote(f)]

\* C24: when the local hash of a tracked file equals the recorded hash and
\* the remote updated_at differs from the recorded one, push does not upload
\* the file, saves no conflict copy, counts no conflict and refreshes the
\* record to the remote metadata, whatever the remote size is.
C24_RemoteOnlyChange ==
    [][ ShellWalks =>
          \A f \in DOMAIN fs :
             ( /\ Compared(f)
               /\ eng["shell"].st.files[f].hash = HashFile(fs[f].content)
               /\ eng["shell"].st.files[f].rtime # RemoteOf(f).utime )
             => ( /\ srv'[RemoteOf(f).id] = srv[RemoteOf(f).id]
                  /\ Len(srv') = Len(srv)
                  /\ Entry(fs', ConflictPath(f)) = Entry(fs, ConflictPath(f))
                  /\ eng'["shell"].res.conflicts = eng["shell"].res.conflicts
                  /\ eng'["shell"].st.files[f].rtime = RemoteOf(f).utime ) ]_vars

\* C25: when the local content of a tracked file differs from the record and
\* the remote updated_at differs from the recorded one, push saves the remote
\* version as the conflict copy, counts a conflict and uploads the local
\* version (stated for a walk whose calls all succeed, a record that names
\* the listed remote file and a remote content that differs from the local one).
C25_BothChanged ==
    [][ (ShellWalks /\ nflt' = nflt) =>
          \A f \in DOMAIN fs :
             ( /\ Compared(f)
               /\ eng["shell"].st.files[f].hash # HashFile(fs[f].content)
               /\ eng["shell"].st.files[f].rtime # RemoteOf(f).utime
               /\ srv[RemoteOf(f).id].alive
               /\ eng["shell"].st.files[f].rid = RemoteOf(f).id
               /\ srv[RemoteOf(f).id].content # fs[f].content )
             => ( /\ ConflictPath(f) \in DOMAIN fs'
                  /\ fs'[ConflictPath(f)].content = srv[RemoteOf(f).id].content
                  /\ eng'["shell"].res.conflicts > eng["shell"].res.conflicts
                  /\ \E i \in 1..Len(srv') :
                        /\ srv'[i].alive
                        /\ srv'[i].path = localToRemote(f)
                        /\ srv'[i].content = fs[f].content ) ]_vars

----------------------------------------------------------------------------
(* A one-shot sync on a tree whose .izeropignore gains a rule between two runs *)

LogPath == <<RootDir, <<"a", "log">>>>

InitIgnored ==
    /\ InitCommon(Scenario({LogPath}, <<>>, TRUE))
    /\ sdirs = {<<RootDir>>}
    /\ loop = "init"
    /\ fsw = "closed"

\* the user adds *.log to .izeropignore while no sync runs; the next run
\* loads the rules when its engine is built
EditIgnore ==
    /\ rules = <<>>
    /\ eng["shell"].pc = "idle"
    /\ rules' = <<LogRule>>
    /\ UNCHANGED <<download, answer, fs, ldirs, now, hashOn, rpaths, srv, sdirs, sclock, log,
                   eng, disk, pulling, events, debounce, pushCh, stopCh, loop, fsw,
                   nrem, nusr, nflt, hist>>

EnvIgnored ==
    \/ \E path \in rpaths, c \in Contents : nrem < WatchRemoteOps /\ RemoteWrite(path, c)
    \/ \E f \in UserPaths, c \in Contents : nusr < MaxUserOps /\ UserWrite(f, c)
    \/ \E f \in UserPaths : nusr < MaxUserOps /\ UserDelete(f)
    \/ EditIgnore

NextIgnored ==
    \/ EnvIgnored
    \/ ShellStart \/ ShellPulled \/ ShellDone
    \/ PullFetch("shell") \/ PullApply("shell")
    \/ PushInit("shell") \/ PushWalk("shell") \/ PushDeletions("shell")

SpecIgnored == InitIgnored /\ [][NextIgnored]_vars

\* a step of the sync that applies a change, walks the tree or runs the
\* deletion pass
SyncActs ==
    /\ eng["shell"].pc \in {"pull_apply", "push_walk", "push_del"}
    /\ eng'["shell"] # eng["shell"]

\* C27: a path of state.files that an ignore rule now matches is not touched
\* by the sync: its state entry and its local file stay as they are and its
\* remote file is neither overwritten nor deleted, also when the local file
\* is gone; and no step adds an ignored path to state.files.
C27_IgnoredUntouched ==
    [][ SyncActs =>
          \A f \in UserPaths :
             IsIgnored(rules, f, FALSE) =>
                /\ Entry(eng'["shell"].st.files, f) = Entry(eng["shell"].st.files, f)
                /\ Entry(fs', f) = Entry(fs, f)
                /\ f \in DOMAIN eng["shell"].st.files
                   => LET rid == eng["shell"].st.files[f].rid
                      IN rid # NoId => srv'[rid] = srv[rid] ]_vars

----------------------------------------------------------------------------
(* Reconcile on a tree with a file in a subdirectory *)

SubFile == <<RootDir, <<"sub">>, <<"x", "txt">>>>

InitNested ==
    /\ InitCommon(Scenario({SubFile}, <<>>, TRUE))
    /\ sdirs \in {{}, {<<RootDir>>}}
    /\ loop = "init"
    /\ fsw = "closed"

EnvNested ==
    \/ \E path \in rpaths, c \in Contents : nrem < WatchRemoteOps /\ RemoteWrite(path, c)
    \/ \E path \in rpaths : nrem < WatchRemoteOps /\ RemoteDelete(path)
    \/ \E f \in UserPaths, c \in Contents : nusr < MaxUserOps /\ UserWrite(f, c)

NextNested ==
    \/ EnvNested
    \/ \E dryRun \in BOOLEAN : ReconcileStart(dryRun)
    \/ ReconcileRun
    \/ ReconcileDone
    \/ ShellStart \/ ShellPulled \/ ShellDone
    \/ PullFetch("shell") \/ PullApply("shell")
    \/ PushInit("shell") \/ PushWalk("shell") \/ PushDeletions("shell")

SpecNested == InitNested /\ [][NextNested]_vars

\* a Reconcile that is not a dry run runs, and all its calls succeed
Reconciles ==
    /\ eng["shell"].pc = "reconcile"
    /\ eng["shell"].kind = "reconcile"
    /\ eng'["shell"].pc = "reconcile_done"
    /\ nflt' = nflt

\* f is a local file that phase 2 of Reconcile finds absent from the manifest
LocalOnly(f) ==
    /\ f \in DOMAIN fs
    /\ Walked(f)
    /\ ~IsHidden(Base(f))
    /\ ~HasConflict(Base(f))
    /\ ~IsTmp(Base(f))
    /\ ~IsIgnored(rules, f, FALSE)
    /\ f \notin DOMAIN remoteByPath(GetManifest(ReconcileWorld("shell")).files)

HasRemoteId(f) ==
    /\ f \in DOMAIN eng["shell"].st.files
    /\ eng["shell"].st.files[f].rid # NoId

\* C28: phase 2 of a Reconcile that is not a dry run uploads and records every
\* local file that is absent from the manifest and has no FileRecord with a
\* remote id, also in a local directory without remote counterpart, and
\* removes locally and forgets every such file that has one.
C28_LocalOnlyFiles ==
    [][ Reconciles =>
          \A f \in DOMAIN fs :
             LocalOnly(f) =>
                IF HasRemoteId(f)
                THEN f \notin DOMAIN fs' /\ f \notin DOMAIN eng'["shell"].st.files
                ELSE /\ f \in DOMAIN eng'["shell"].st.files
                     /\ LET rid == eng'["shell"].st.files[f].rid IN
                        /\ rid \in 1..Len(srv')
                        /\ srv'[rid].alive
                        /\ srv'[rid].path = localToRemote(f)
                        /\ srv'[rid].content = fs[f].content ]_vars

----------------------------------------------------------------------------
(* The polling watcher when the account holds a file outside the sync root *)

InitOutside ==
    /\ InitCommon(Scenario({OtherFile}, <<>>, TRUE))
    /\ sdirs = {<<RootDir>>}
    /\ loop = "select"
    /\ fsw = "closed"

SpecOutside == InitOutside /\ [][NextPull]_vars

\* the remote path lies under /<root>
InRoot(remotePath) == Len(remotePath) >= 2 /\ remotePath[1] = RootDir

\* C29: a change whose remote path lies outside /<root> is ignored: the pull
\* creates, overwrites and deletes nothing locally and records nothing.
C29_OutsideIgnored ==
    [][ (Applying /\ ~InRoot(CurChange.path) /\ CurChange.path # <<RootDir>>)
        => ( /\ fs' = fs
             /\ ldirs' = ldirs
             /\ eng'[W].st.files = eng[W].st.files
             /\ eng'[W].st.notes = eng[W].st.notes ) ]_vars

----------------------------------------------------------------------------
(* A one-shot sync while the user saves the file that is being installed *)

\* handleFileChange installs the head change of the page, and the user saves
\* the file between os.Rename and the HashFile call that fills the record:
\* the record gets the size, the hash and the mtime of what is on the disk then
InstallRaced ==
    /\ eng["shell"].pc = "pull_apply"
    /\ nusr < MaxUserOps
    /\ LET e == eng["shell"]
           c == Head(e.page)
           f == LocalName(c.path)
           w == handleFileChange(World("shell"), c, [fail |-> "none", copy |-> TRUE],
                                 srv[c.id].content)
       IN /\ c.type = "file"
          /\ srv[c.id].alive
          /\ w.res.downloaded > e.res.downloaded
          /\ \E c2 \in Contents \ {srv[c.id].content} :
                LET st2 == [w.st EXCEPT !.files =
                              Put(@, f, FileRecord(c.id, c2, c.utime, now))]
                    e1  == [e EXCEPT !.st = st2, !.res = w.res, !.page = Tail(e.page)]
                IN /\ fs' = Put(w.fs, f, [content |-> c2, mtime |-> now])
                   /\ eng' = [eng EXCEPT !["shell"] =
                                 IF Tail(e.page) = <<>> THEN AfterPage(e1) ELSE e1]
          /\ ldirs' = w.ldirs
          /\ events' = Notify(w.wrote \cup {f})
          /\ hist' = [hist EXCEPT
                        !.unapplied = @ \ {e.pageCursor - Len(e.page) + 1},
                        !.snap.valid = FALSE,
                        !.unlinked = @ \ DOMAIN w.fs,
                        !.evs = Noted(f)]
    /\ nusr' = nusr + 1
    /\ UNCHANGED <<download, answer, now, rules, hashOn, rpaths, srv, sdirs, sclock, log,
                   disk, pulling, debounce, pushCh, stopCh, loop, fsw, nrem, nflt>>

NextRace ==
    \/ EnvShell
    \/ \E f \in UserPaths, c \in Contents : nusr < MaxUserOps /\ UserWrite(f, c)
    \/ Tick
    \/ ShellStart \/ ShellPulled \/ ShellDone
    \/ PullFetch("shell") \/ PullApply("shell")
    \/ PushInit("shell") \/ PushWalk("shell") \/ PushDeletions("shell")
    \/ InstallRaced

SpecRace == InitShell /\ [][NextRace]_vars

\* C30: the hash that a download records for a file is the hash of the bytes
\* that the download transferred, also when the user saves the file between
\* the transfer and the writing of the record.
C30_HashOfTransfer ==
    [][ ( /\ eng["shell"].pc = "pull_apply"
          /\ eng'["shell"].res.downloaded > eng["shell"].res.downloaded )
        => LET c == Head(eng["shell"].page)
               f == LocalName(c.path)
           IN /\ f \in DOMAIN eng'["shell"].st.files
              /\ eng'["shell"].st.files[f].hash = HashFile(srv[c.id].content) ]_vars

----------------------------------------------------------------------------
(* What the deletion pass of a push does with the entries of removed files *)

\* the deletion pass of the push of the watcher
WDeletes == eng[W].pc = "push_del" /\ eng'[W].pc = "push_done"

\* f is tracked with the id of a live remote file and its local file is gone
Removed(f) ==
    /\ f \in DOMAIN eng[W].st.files
    /\ f \notin DOMAIN fs
    /\ eng[W].st.files[f].rid # NoId
    /\ srv[eng[W].st.files[f].rid].alive

\* C31: the deletion pass drops the state entry of a removed file only when
\* the remote delete succeeded; when the call fails the entry stays.
C31_KeptOnFailure ==
    [][ WDeletes =>
          \A f \in DOMAIN eng[W].st.files :
             (Removed(f) /\ f \notin DOMAIN eng'[W].st.files)
             => ~srv'[eng[W].st.files[f].rid].alive ]_vars

\* the delete calls that the step adds for f
NewDeletes(f) ==
    {Call("delete", f), Call("delete_note", f)} \cap (hist'.calls \ hist.calls)

\* C32: for each tracked path whose local file is removed, the deletion pass
\* of one push issues one remote delete call and counts one deletion, also
\* for a note that is recorded in state.notes and in state.files (stated for
\* a pass in which no call fails for a network fault).
C32_OneDelete ==
    [][ (WDeletes /\ nflt' = nflt) =>
          /\ \A f \in DOMAIN eng[W].st.files :
                Removed(f) => Cardinality(NewDeletes(f)) = 1
          /\ eng'[W].res.deleted - eng[W].res.deleted
                = Cardinality({ f \in DOMAIN eng[W].st.files : Removed(f) })
          /\ eng'[W].res.errors = eng[W].res.errors ]_vars

----------------------------------------------------------------------------
(* The notes that a pull records *)

\* the change at the head of the page creates or modifies a server note
NoteChange ==
    /\ CurChange.type = "file"
    /\ CurChange.action \in {"created", "modified"}
    /\ InRoot(CurChange.path)
    /\ ~HasExt(Base(CurChange.path))
    /\ ~IsIgnored(rules, CurFile, FALSE)

\* the local file already holds the bytes of the change, and the recency
\* guard lets the change through
SameBytes ==
    /\ CurFile \in DOMAIN fs
    /\ ~ActivelyEdited(fs[CurFile])
    /\ CurChange.hash # NoHash
    /\ HashFile(fs[CurFile].content) = CurChange.hash

\* C33: after a pull has processed a create/modify change for a server note,
\* by a download or by the skip for identical content, state.notes maps the
\* local path <rel>.txt to the remote id of the change.
C33_NoteRecorded ==
    [][ ( /\ Applying
          /\ NoteChange
          /\ \/ eng'[W].res.downloaded > eng[W].res.downloaded
             \/ SameBytes )
        => ( /\ CurFile \in DOMAIN eng'[W].st.notes
             /\ eng'[W].st.notes[CurFile] = CurChange.id ) ]_vars

----------------------------------------------------------------------------
(* The polling watcher when the server holds a note and a file of one stem *)

InitTwins ==
    /\ InitCommon(Scenario({NoteFile, TextFile}, <<>>, TRUE))
    /\ sdirs = {<<RootDir>>}
    /\ loop = "select"
    /\ fsw = "closed"

SpecTwins == InitTwins /\ [][NextPull]_vars

\* C34: two distinct remote files under the root are never mapped to the same
\* local path: when a pull installs a change over a local file that
\* state.files records for a live remote file under the root, that remote
\* file has the remote path of the change.
C34_Injective ==
    [][ ( /\ Applying
          /\ CurChange.type = "file"
          /\ InRoot(CurChange.path)
          /\ eng'[W].res.downloaded > eng[W].res.downloaded
          /\ CurFile \in DOMAIN eng[W].st.files
          /\ eng[W].st.files[CurFile].rid # NoId
          /\ srv[eng[W].st.files[CurFile].rid].alive
          /\ InRoot(srv[eng[W].st.files[CurFile].rid].path) )
        => srv[eng[W].st.files[CurFile].rid].path = CurChange.path ]_vars

----------------------------------------------------------------------------
(* What a pull keeps of the local bytes that it replaces *)

\* C35: whenever a pull counts a conflict for f and installs the version of
\* the server over f, the sidecar of f holds the bytes that f had before; a
\* failed copy to the sidecar leaves f as it was.
C35_SidecarBeforeOverwrite ==
    [][ ( /\ Applying
          /\ CurChange.type = "file"
          /\ CurFile \in DOMAIN fs
          /\ eng'[W].res.conflicts > eng[W].res.conflicts
          /\ Entry(fs', CurFile) # Entry(fs, CurFile) )
        => ( /\ ConflictPath(CurFile) \in DOMAIN fs'
             /\ fs'[ConflictPath(CurFile)].content = fs[CurFile].content ) ]_vars

\* the user has edited f since the record was written
Edited(f) ==
    /\ f \in DOMAIN fs
    /\ f \in DOMAIN eng[W].st.files
    /\ eng[W].st.files[f].hash # HashFile(fs[f].content)

\* C36: when the local file f holds content that differs from the hash in
\* state.files[f], no step of a pull removes or overwrites f unless afterwards
\* the sidecar of f holds the edited content.  Stated for a deleted change;
\* for a create/modify change the sidecar is the subject of C1 and C35.
C36_EditsPreserved ==
    [][ ( /\ Applying
          /\ CurChange.type = "file"
          /\ CurChange.action = "deleted"
          /\ Edited(CurFile)
          /\ \/ CurFile \notin DOMAIN fs'
             \/ fs'[CurFile].content # fs[CurFile].content )
        => ( /\ ConflictPath(CurFile) \in DOMAIN fs'
             /\ fs'[ConflictPath(CurFile)].content = fs[CurFile].content ) ]_vars

\* C37: the recent-modification guard is not triggered by the writes of the
\* engine: with no user edit at all and no failing call, a pull that has
\* processed a create/modify change of a live remote file leaves the local
\* file with the content that the server holds, also when an earlier change
\* of the same file was installed less than RecentSecs before.
C37_OwnWritesNotGuarded ==
    [][ ( /\ Applying
          /\ nusr = 0
          /\ nflt' = 0
          /\ CurChange.type = "file"
          /\ CurChange.action \in {"created", "modified"}
          /\ InRoot(CurChange.path)
          /\ ~IsIgnored(rules, CurFile, FALSE)
          /\ srv[CurChange.id].alive )
        => ( /\ CurFile \in DOMAIN fs'
             /\ fs'[CurFile].content = srv[CurChange.id].content ) ]_vars

----------------------------------------------------------------------------
(* One-shot syncs of a user who keeps editing, with no other client at work *)

MaxEdits == 2

EnvEdits ==
    \/ \E f \in UserPaths, c \in Contents : nusr < MaxEdits /\ UserWrite(f, c)
    \/ Tick

NextEdits ==
    \/ EnvEdits
    \/ ShellStart \/ ShellPulled \/ ShellDone
    \/ PullFetch("shell") \/ PullApply("shell")
    \/ PushInit("shell") \/ PushWalk("shell") \/ PushDeletions("shell")

SpecEdits == InitReconcile /\ [][NextEdits]_vars

\* C38: a push counts a conflict and writes a sidecar only if another party
\* changed the remote copy: where no other client changes the server, a walk
\* (here one in which no call fails) counts no conflict and writes no sidecar,
\* also for a file that this client has updated in an earlier push.
C38_NoFalseConflict ==
    [][ (ShellWalks /\ nflt' = 0) =>
          /\ eng'["shell"].res.conflicts = eng["shell"].res.conflicts
          /\ \A f \in UserPaths :
                Entry(fs', ConflictPath(f)) = Entry(fs, ConflictPath(f)) ]_vars

----------------------------------------------------------------------------
(* The remote files that the walk of a push creates *)

\* the walk of the push of the watcher
WWalks == eng[W].pc = "push_walk" /\ eng'[W].pc = "push_del"

\* C39: the walk of a push creates no remote file at a path where the server
\* already holds a live file, also when the listing of a remote directory
\* failed before the walk.
C39_NoDuplicates ==
    [][ WWalks =>
          \A i \in (Len(srv) + 1)..Len(srv') :
             \A j \in 1..Len(srv) :
                ~(srv[j].alive /\ srv[j].path = srv'[i].path) ]_vars

----------------------------------------------------------------------------
(* The watcher when Stop is called more than once *)

\* Watcher.Stop (or StopWatch, which still finds the watcher in a.watcher)
\* is called again before Run has returned: close of the closed stopCh
\* panics and the process dies
StopAgain ==
    /\ loop \notin {"init", "stopped", "panicked"}
    /\ stopCh
    /\ loop' = "panicked"
    /\ eng' = [eng EXCEPT !["watcher"] = EngIdle(EmptyState)]
    /\ pulling' = FALSE
    /\ UNCHANGED <<download, answer, fs, ldirs, now, rules, hashOn, rpaths, srv, sdirs, sclock, log,
                   disk, events, debounce, pushCh, stopCh, fsw, nrem, nusr, nflt, hist>>

NextStopTwice == NextStop \/ StopAgain

SpecStopTwice == InitDebounce /\ [][NextStopTwice]_vars

\* C40: a second call of Stop before Run has returned causes no panic.
C40_StopIdempotent == loop # "panicked"

====
